---- MODULE Spec2Model ----
(***************************************************************************)
(* BotFactory: the Bot rows of the database, the webhook management        *)
(* endpoints of BotViewSet (set-webhook, delete-webhook), the webhook      *)
(* gateway telegram_webhook_by_id, and the polling worker (main,           *)
(* BotManager, BotMonitor).                                                *)
(*                                                                         *)
(* Three specifications share the database:                                *)
(*   Spec         the management endpoints, one request in flight;         *)
(*   SpecGateway  the webhook gateway beside the management endpoints;     *)
(*   SpecWorker   the polling worker beside the management endpoints.      *)
(* The API service and the worker are separate processes that meet only in *)
(* the database, so each is explored with the writers of the rows it reads.*)
(***************************************************************************)
EXTENDS Integers, Sequences, FiniteSets, TLC

\* ---- bounds ----
MaxTime == 1      \* updated_at takes the values 0..MaxTime
MaxTasks == 3     \* asyncio tasks the manager may create in one run
TicksPerWindow == 2   \* clock ticks in one rate-limit period
MaxOverLimit == 1     \* requests a key sends in one window beyond the limit
MaxUses == 2          \* largest max_uses of an AIUsageLimit row, and the rows kept in the usage log
MaxSteps == 2         \* largest number of steps of a form
MaxUpdates == 3       \* updates of one user that Telegram delivers to one bot
MaxEdits == 2         \* times the commands of one bot are changed
MaxCalls == 2         \* AIService.generate calls of one user that run at the same time
MaxAggregations == 3  \* aggregate_token_usage executions for one bot and date

\* ---- value sets ----
Bots == {"b1", "b2"}                 \* rows of the bots table; a bot's decrypted token is identified with the bot
BotOrder == <<"b1", "b2">>           \* order in which a queryset lists the rows
Statuses == {"active", "paused"}     \* 'active' and one of the other STATUS_CHOICES
Modes == {"polling", "webhook"}      \* DELIVERY_MODE_CHOICES
NoSecret == ""                       \* webhook_secret blank=True
GeneratedSecret == "s1"              \* the value secrets.token_urlsafe(32) returns
NoUrl == ""                          \* webhook_url blank=True
CustomUrls == {"u1"}                 \* webhook_url values a caller may send

VARIABLES
    status,           \* Bot.status
    telegram_token,   \* TRUE iff Bot.telegram_token is non-empty
    delivery_mode,    \* Bot.delivery_mode
    webhook_secret,   \* Bot.webhook_secret
    webhook_url,      \* Bot.webhook_url
    updated_at,       \* Bot.updated_at (auto_now)
    api,              \* the management request in flight and its response
    wh,               \* the last webhook request handled by the gateway and its response
    worker_pc,        \* position of the worker: main() before bootstrap, monitor checking or sleeping
    running_bots,     \* BotManager.running_bots: token -> task (0: the token is no key)
    bot_instances,    \* BotManager.bot_instances: the tokens that are keys
    task_phase,       \* state of each asyncio task running _run_bot
    next_task,        \* identity of the next task asyncio.create_task returns
    last_bot_tokens,  \* BotMonitor._last_bot_tokens
    bot_timestamps,   \* BotMonitor._bot_timestamps: token -> updated_at (-1: the token is no key)
    add_calls,        \* the add_bot calls made by the last step of the worker, in order
    routers_attached, \* TRUE iff the module-level routers have been included in a Dispatcher
    call,             \* the add_bot or remove_bot call in flight, then its result
    bot_session,      \* per task, the session of the Bot that _run_bot constructed
    task_result,      \* per task, how _run_bot ended
    task_token,       \* per task, the token _run_bot was created for
    ui_form,          \* the 'steps' list of the form in the bot's UI configuration
    fsm_data,         \* the data of the user's FSMContext
    fsm_state,        \* the state of the user's FSMContext
    fm,               \* the last update of the user that the dispatcher handled
    rl_purpose,       \* the rate-limited endpoint the requests go to (key_prefix)
    cache,            \* django.core.cache: rate-limit key -> value and remaining time to live
    rl,               \* the rate-limited request in flight, then its response
    rl_window,        \* per key, the requests received in the open window and the time it has left
    counter_due,      \* per key, the time left until one period after the counter was created
    user_plan,        \* User.plan
    feature_active,   \* AIFeature.is_active
    usage_limit,      \* the AIUsageLimit row of the Free plan: max_uses and period
    usage_log,        \* the AIUsageLog rows inside the period of the limit, oldest first
    ai,               \* the AI feature request in flight, then its response
    bot_row,          \* TRUE iff a Bot row with the id the task was given exists
    task,             \* the process_telegram_update task of one update: its request and position
    task_db,          \* the rows the task has written for its update, counted by kind
    lock,             \* BotManager._lock: the coroutine that holds it
    shutdown,         \* position of main() once it has left its sleep loop
    updates,          \* the updates of one user to one bot, in arrival order: handler and position
    chat_messages,    \* the user ChatMessage rows of the chat session, in the order they were saved
    message_count,    \* TelegramUser.message_count of the user's row for the bot
    commands_db,      \* per bot, the version of its Command rows (and of Bot.updated_at)
    command_registry, \* _command_registry: bot -> the version of the commands it caches
    monitor_seen,     \* per bot, the version the monitor recorded when it last detected a change
    cmd_lookup,       \* the last get_commands_for_bot call and what it returned
    gen,              \* the concurrent AIService.generate calls of one user: position, usage read
    rreq,             \* the requests of one rate-limit key handled at the same time
    token_usage,      \* the TokenUsage row of one bot and date
    agg               \* the aggregate_token_usage executions for that bot and date

dbvars == <<status, telegram_token, delivery_mode, webhook_secret, webhook_url, updated_at>>
wvars == <<worker_pc, running_bots, bot_instances, task_phase, next_task,
           last_bot_tokens, bot_timestamps, add_calls, routers_attached>>
mgvars == <<call, bot_session, task_result, task_token>>
fmvars == <<ui_form, fsm_data, fsm_state, fm>>
rlvars == <<rl_purpose, cache, rl, rl_window, counter_due>>
aivars == <<user_plan, feature_active, usage_limit, usage_log, ai>>
tkvars == <<bot_row, task, task_db>>
sdvars == <<lock, shutdown>>
dlvars == <<updates, chat_messages, message_count>>
cmvars == <<commands_db, command_registry, monitor_seen, cmd_lookup>>
gnvars == <<gen>>
rrvars == <<rreq>>
tuvars == <<token_usage, agg>>
ccvars == <<dlvars, cmvars, gnvars, rrvars, tuvars>>
vars == <<status, telegram_token, delivery_mode, webhook_secret, webhook_url, updated_at, api, wh,
          worker_pc, running_bots, bot_instances, task_phase, next_task,
          last_bot_tokens, bot_timestamps, add_calls, routers_attached,
          call, bot_session, task_result, task_token, ui_form, fsm_data, fsm_state, fm,
          rl_purpose, cache, rl, rl_window, counter_due,
          user_plan, feature_active, usage_limit, usage_log, ai,
          bot_row, task, task_db, lock, shutdown,
          updates, chat_messages, message_count,
          commands_db, command_registry, monitor_seen, cmd_lookup, gen, rreq, token_usage, agg>>

\* ---- the management request record ----
\* no management request has been made yet
\* no row was read by the request
NoSnapshot == [mode |-> "none", url |-> "none", secret |-> "none"]

ApiIdle ==
    [op |-> "none", bot |-> "none", pc |-> "idle", telegram |-> "none",
     code |-> 0, success |-> FALSE, wrote_webhook |-> FALSE,
     before |-> NoSnapshot, custom_url |-> ""]

\* the fields of bot b that self.get_object() loads for set_webhook
Snapshot(b) ==
    [mode |-> delivery_mode[b], url |-> webhook_url[b], secret |-> webhook_secret[b]]

\* the client sends its requests one after the other
ApiFree == api.pc # "telegram"

\* a management request that is waiting for Telegram's answer
ApiWaiting(op, b, wrote) ==
    [op |-> op, bot |-> b, pc |-> "telegram", telegram |-> "none",
     code |-> 0, success |-> FALSE, wrote_webhook |-> wrote,
     before |-> NoSnapshot, custom_url |-> ""]

\* Response(...) of a management request that made no call to Telegram
ApiDone(op, b, code, success) ==
    [op |-> op, bot |-> b, pc |-> "done", telegram |-> "none",
     code |-> code, success |-> success, wrote_webhook |-> FALSE,
     before |-> NoSnapshot, custom_url |-> ""]

\* ---- the webhook gateway: telegram_webhook_by_id ----
UnknownBot == "unknown"              \* a UUID that names no row
NoHeader == "absent"                 \* request.headers.get(...) returns None
WrongSecret == "s2"                  \* an ASCII value that differs from every stored secret
NonAscii == "é"                      \* a header value with a non-ASCII character
Headers == {NoHeader, "", GeneratedSecret, WrongSecret, NonAscii}
Bodies == {"bad_json", "bad_update", "valid"}   \* unparseable, a dict that is no Update, an Update
DispatcherOutcomes == {"ok", "raise"}           \* get_shared_dispatcher returns or re-raises
FeedOutcomes == {"ok", "bad_request", "error"}  \* dp.feed_update returns, raises TelegramBadRequest, raises Exception

WhIdle ==
    [bot_id |-> "none", method |-> "none", mode |-> "none", secret |-> "none", body |-> "unread",
     header |-> "unread", update_built |-> FALSE, dispatcher |-> "n/a", feed |-> "n/a",
     code |-> 0, text |-> "", events |-> <<>>]

\* hmac.compare_digest on two str: TypeError unless both are ASCII
CompareDigest(a, b) ==
    IF a = NonAscii \/ b = NonAscii THEN "raise"
    ELSE IF a = b THEN "equal" ELSE "differ"

\* step 4 of the handler: "pass", "forbidden" (HttpResponseForbidden) or "raise"
ValidateSignature(secret, header) ==
    IF secret # NoSecret /\ header \notin {NoHeader, ""}
    THEN CASE CompareDigest(header, secret) = "equal" -> "pass"
           [] CompareDigest(header, secret) = "differ" -> "forbidden"
           [] OTHER -> "raise"
    ELSE "pass"

\* step 2 of the handler: the response for a bot whose delivery_mode is not webhook
NotWebhookModeResponse == [code |-> 200, text |-> "OK"]

\* a handler exception reaching the outer except clause
ProcessedResponse_Propagate(feed) ==
    IF feed = "ok" THEN [code |-> 200, text |-> "OK"] ELSE [code |-> 500, text |-> "Error"]

\* the response once dp.feed_update has returned or raised
ProcessedResponse(feed) == [code |-> 200, text |-> "OK"]

\* the whole POST/GET handler as a function of the row it reads and of its inputs;
\* an input the handler never reads is recorded as unread
HandleWebhook(bot_id, method, body, header, disp, feed) ==
    LET base == [WhIdle EXCEPT !.bot_id = bot_id, !.method = method] IN
    IF method = "GET"
    THEN [base EXCEPT !.code = 200, !.text = "status ok"]
    ELSE IF bot_id \notin Bots \/ status[bot_id] # "active"
    THEN [base EXCEPT !.code = 403, !.text = "Bot not found or inactive"]
    ELSE
    LET found == [base EXCEPT !.mode = delivery_mode[bot_id], !.secret = webhook_secret[bot_id]] IN
    IF delivery_mode[bot_id] # "webhook"
    THEN [found EXCEPT !.code = NotWebhookModeResponse.code, !.text = NotWebhookModeResponse.text]
    ELSE IF body = "bad_json"
    THEN [found EXCEPT !.body = body, !.code = 400, !.text = "Invalid JSON", !.events = <<"error">>]
    ELSE
    LET parsed == [found EXCEPT !.body = body, !.events = <<"received">>,
                                !.header = IF webhook_secret[bot_id] # NoSecret THEN header ELSE "unread"]
        sig == ValidateSignature(webhook_secret[bot_id], header) IN
    IF sig = "forbidden"
    THEN [parsed EXCEPT !.code = 403, !.text = "Invalid signature", !.events = @ \o <<"error">>]
    ELSE IF sig = "raise" \/ ~telegram_token[bot_id]
    THEN [parsed EXCEPT !.code = 500, !.text = "Error", !.events = @ \o <<"error">>]
    ELSE IF body = "bad_update"
    THEN [parsed EXCEPT !.code = 400, !.text = "Invalid Update format", !.events = @ \o <<"error">>]
    ELSE IF disp = "raise"
    THEN [parsed EXCEPT !.update_built = TRUE, !.dispatcher = disp,
                        !.code = 500, !.text = "Error", !.events = @ \o <<"error">>]
    ELSE [parsed EXCEPT !.update_built = TRUE, !.dispatcher = disp, !.feed = feed,
                        !.code = ProcessedResponse(feed).code, !.text = ProcessedResponse(feed).text,
                        !.events = @ \o <<IF feed = "ok" THEN "processed" ELSE "error">>]

\* dp.feed_update was called with the request's update
Dispatched(r) == r.feed # "n/a"

\* the inputs a request consumes: the body is read at step 3, the header at step 4,
\* get_shared_dispatcher and dp.feed_update are called at step 7
ReadsBody(bot_id, method) ==
    HandleWebhook(bot_id, method, "valid", NoHeader, "ok", "ok").body # "unread"
ReadsHeader(bot_id, method, body) ==
    HandleWebhook(bot_id, method, body, NoHeader, "ok", "ok").header # "unread"
CallsDispatcher(bot_id, method, body, header) ==
    HandleWebhook(bot_id, method, body, header, "ok", "ok").dispatcher # "n/a"
CallsFeed(bot_id, method, body, header, disp) ==
    HandleWebhook(bot_id, method, body, header, disp, "ok").feed # "n/a"

\* one request to /webhook/<bot_id>/
WebhookRequest(bot_id, method) ==
    /\ \E body \in IF ReadsBody(bot_id, method) THEN Bodies ELSE {"valid"} :
       \E header \in IF ReadsHeader(bot_id, method, body) THEN Headers ELSE {NoHeader} :
       \E disp \in IF CallsDispatcher(bot_id, method, body, header) THEN DispatcherOutcomes ELSE {"ok"} :
       \E feed \in IF CallsFeed(bot_id, method, body, header, disp) THEN FeedOutcomes ELSE {"ok"} :
          wh' = HandleWebhook(bot_id, method, body, header, disp, feed)
    /\ UNCHANGED dbvars

\* ---- the polling worker: BotManager ----
Tasks == 1..(MaxTasks + Cardinality(Bots))   \* a step is taken only if it ends with next_task <= MaxTasks + 1
NoTask == 0
NoTimestamp == -1

\* the manager and monitor fields one step of the worker reads and writes
WorkerState ==
    [running_bots |-> running_bots, bot_instances |-> bot_instances, task_phase |-> task_phase,
     next_task |-> next_task, bot_timestamps |-> bot_timestamps, add_calls |-> <<>>]

\* BotManager.is_running: the token is a key and its task is not done
IsRunning(w, b) ==
    w.running_bots[b] # NoTask /\ w.task_phase[w.running_bots[b]] # "done"

\* BotManager.get_running_bots
GetRunningBots(w) == {b \in Bots : IsRunning(w, b)}

\* what an add_bot call found and left behind
AddCall(before, after, b, result) ==
    [token |-> b, was_live |-> IsRunning(before, b), result |-> result,
     task_before |-> before.running_bots[b], task_after |-> after.running_bots[b],
     phase_before |-> IF before.running_bots[b] = NoTask THEN "none"
                      ELSE before.task_phase[before.running_bots[b]],
     phase_after |-> IF before.running_bots[b] = NoTask THEN "none"
                     ELSE after.task_phase[before.running_bots[b]],
     created |-> after.next_task - before.next_task,
     running_before |-> Cardinality(GetRunningBots(before)),
     running_after |-> Cardinality(GetRunningBots(after))]

\* lines 54-58 of add_bot: create the task and register it
StartTask(w, b) ==
    [w EXCEPT !.running_bots[b] = w.next_task,
              !.task_phase[w.next_task] = "created",
              !.next_task = @ + 1]

\* add_bot without the test for a live task
AddBot_NoLiveCheck(w, b) ==
    LET after == StartTask([w EXCEPT !.bot_instances = IF w.running_bots[b] # NoTask THEN @ \ {b} ELSE @], b)
    IN [after EXCEPT !.add_calls = Append(@, AddCall(w, after, b, TRUE))]

\* BotManager.add_bot
AddBot(w, b) ==
    IF IsRunning(w, b)
    THEN [w EXCEPT !.add_calls = Append(@, AddCall(w, w, b, FALSE))]
    ELSE LET after == StartTask([w EXCEPT !.bot_instances =
                                     IF w.running_bots[b] # NoTask THEN @ \ {b} ELSE @], b)
         IN [after EXCEPT !.add_calls = Append(@, AddCall(w, after, b, TRUE))]

\* BotManager.remove_bot: cancel and await the task, close the session, drop both keys
RemoveBot(w, b) ==
    IF w.running_bots[b] = NoTask
    THEN w
    ELSE [w EXCEPT !.task_phase[w.running_bots[b]] = "done",
                   !.bot_instances = @ \ {b},
                   !.running_bots[b] = NoTask]

\* BotManager.restart_bot
RestartBot(w, b) == AddBot(RemoveBot(w, b), b)

\* ---- the rows the worker loads ----
\* get_all_active_bots, less the rows main() and _check_bots skip for an empty token
ActiveBots == {b \in Bots : status[b] = "active" /\ telegram_token[b]}

\* ---- main(): bootstrap ----
RECURSIVE BootstrapEach(_, _)
BootstrapEach(w, i) ==
    IF i > Len(BotOrder) THEN w
    ELSE BootstrapEach(IF BotOrder[i] \in ActiveBots THEN AddBot(w, BotOrder[i]) ELSE w, i + 1)

\* ---- BotMonitor._check_bots ----
\* the body of the loop without its last branch, the one for a bot that is not running
CheckOne_NoRevive(w, b) ==
    IF b \notin last_bot_tokens
    THEN [AddBot(w, b) EXCEPT !.bot_timestamps[b] = updated_at[b]]
    ELSE IF w.bot_timestamps[b] # NoTimestamp /\ updated_at[b] > w.bot_timestamps[b]
    THEN [RestartBot(w, b) EXCEPT !.bot_timestamps[b] = updated_at[b]]
    ELSE IF w.bot_timestamps[b] = NoTimestamp
    THEN [w EXCEPT !.bot_timestamps[b] = updated_at[b]]
    ELSE w

\* the body of the loop over current_bots, for one bot
CheckOne(w, b) ==
    IF b \notin last_bot_tokens
    THEN [AddBot(w, b) EXCEPT !.bot_timestamps[b] = updated_at[b]]
    ELSE IF w.bot_timestamps[b] # NoTimestamp /\ updated_at[b] > w.bot_timestamps[b]
    THEN [RestartBot(w, b) EXCEPT !.bot_timestamps[b] = updated_at[b]]
    ELSE IF w.bot_timestamps[b] = NoTimestamp
    THEN [w EXCEPT !.bot_timestamps[b] = updated_at[b]]
    ELSE IF ~IsRunning(w, b)
    THEN AddBot(w, b)
    ELSE w

\* the loop over removed_tokens forgetting the token without stopping its bot
RemoveOne_ForgetOnly(w, b) ==
    [w EXCEPT !.bot_timestamps[b] = NoTimestamp]

\* the loop over removed_tokens, for one token
RemoveOne(w, b) ==
    [RemoveBot(w, b) EXCEPT !.bot_timestamps[b] = NoTimestamp]

RECURSIVE CheckEach(_, _)
CheckEach(w, i) ==
    IF i > Len(BotOrder) THEN w
    ELSE LET b == BotOrder[i] IN
         CheckEach(IF b \in ActiveBots THEN CheckOne(w, b)
                   ELSE IF b \in last_bot_tokens THEN RemoveOne(w, b)
                   ELSE w, i + 1)

\* the worker's fields take the values of w
Install(w) ==
    /\ running_bots' = w.running_bots
    /\ bot_instances' = w.bot_instances
    /\ task_phase' = w.task_phase
    /\ next_task' = w.next_task
    /\ bot_timestamps' = w.bot_timestamps
    /\ add_calls' = w.add_calls

InitWorker ==
    /\ worker_pc = "boot"
    /\ running_bots = [b \in Bots |-> NoTask]
    /\ bot_instances = {}
    /\ task_phase = [t \in Tasks |-> "none"]
    /\ next_task = 1
    /\ last_bot_tokens = {}
    /\ bot_timestamps = [b \in Bots |-> NoTimestamp]
    /\ add_calls = <<>>
    /\ routers_attached = FALSE

\* main(): load the bots, add each to the manager, start the monitor
Bootstrap ==
    /\ worker_pc = "boot"
    /\ LET w == BootstrapEach(WorkerState, 1) IN
       /\ w.next_task <= MaxTasks + 1
       /\ Install(w)
    /\ worker_pc' = "check"
    /\ UNCHANGED <<last_bot_tokens, routers_attached>>

\* one pass of _monitor_loop: _check_bots, then asyncio.sleep(check_interval)
CheckBots ==
    /\ worker_pc = "check"
    /\ LET w == CheckEach(WorkerState, 1) IN
       /\ w.next_task <= MaxTasks + 1
       /\ Install(w)
    /\ last_bot_tokens' = ActiveBots
    /\ worker_pc' = "sleep"
    /\ UNCHANGED routers_attached

\* the sleep of _monitor_loop is over
MonitorWake ==
    /\ worker_pc = "sleep"
    /\ worker_pc' = "check"
    /\ add_calls' = <<>>
    /\ UNCHANGED <<running_bots, bot_instances, task_phase, next_task, last_bot_tokens,
                   bot_timestamps, routers_attached>>

\* create_dispatcher(). The five routers are objects of their modules: include_router
\* (dispatcher.py:34) raises RuntimeError for a router that is already attached to
\* another Dispatcher.  On the first call the routers attach and register_commands
\* reaches register_dynamic_commands, which iterates over the coroutine that the
\* sync_to_async-wrapped get_all_active_bots returns (command_registry.py:343-345):
\* TypeError, outside the try of that loop
CreateDispatcher(attached) == IF attached THEN "RuntimeError" ELSE "TypeError"

\* _run_bot from its start to start_polling: Bot(...) is stored, get_me returns and
\* create_dispatcher is called; start_polling runs if it returned a Dispatcher, otherwise
\* the exception is logged and finally closes the session and drops the client
RunBotPolling(b) ==
    /\ running_bots[b] # NoTask
    /\ task_phase[running_bots[b]] = "created"
    /\ IF CreateDispatcher(routers_attached) = "ok"
       THEN /\ task_phase' = [task_phase EXCEPT ![running_bots[b]] = "polling"]
            /\ bot_instances' = bot_instances \cup {b}
       ELSE /\ task_phase' = [task_phase EXCEPT ![running_bots[b]] = "done"]
            /\ bot_instances' = bot_instances \ {b}
    /\ routers_attached' = TRUE
    /\ add_calls' = <<>>
    /\ UNCHANGED <<worker_pc, running_bots, next_task, last_bot_tokens, bot_timestamps>>

\* _run_bot ends: TelegramConflictError or another exception from get_me or
\* start_polling; finally closes the session and drops the client
RunBotExit(b) ==
    /\ running_bots[b] # NoTask
    /\ task_phase[running_bots[b]] \in {"created", "polling"}
    /\ task_phase' = [task_phase EXCEPT ![running_bots[b]] = "done"]
    /\ bot_instances' = bot_instances \ {b}
    /\ add_calls' = <<>>
    /\ UNCHANGED <<worker_pc, running_bots, next_task, last_bot_tokens, bot_timestamps,
                   routers_attached>>

\* ---- management requests that touch the rows the worker reads ----
\* BotViewSet.partial_update with a status: serializer.save() also sets updated_at
PartialUpdate(b, st) ==
    /\ ApiFree
    /\ updated_at[b] < MaxTime
    /\ status' = [status EXCEPT ![b] = st]
    /\ updated_at' = [updated_at EXCEPT ![b] = @ + 1]
    /\ api' = ApiDone("partial_update", b, 200, TRUE)
    /\ UNCHANGED <<telegram_token, delivery_mode, webhook_secret, webhook_url>>

\* BotViewSet.restart_bot: 400 without a token or for a bot that is not active,
\* else touch updated_at (save(update_fields=['updated_at']), auto_now) and answer 200
RestartBotRequest(b) ==
    /\ ApiFree
    /\ IF ~telegram_token[b] \/ status[b] # "active"
       THEN /\ api' = ApiDone("restart_bot", b, 400, FALSE)
            /\ UNCHANGED dbvars
       ELSE /\ updated_at[b] < MaxTime
            /\ updated_at' = [updated_at EXCEPT ![b] = @ + 1]
            /\ api' = ApiDone("restart_bot", b, 200, TRUE)
            /\ UNCHANGED <<status, telegram_token, delivery_mode, webhook_secret, webhook_url>>

\* ---- Init: rows as created, with the default blank secret and URL; a secret appears
\* when set-webhook generates one ----
InitDB ==
    /\ status \in [Bots -> Statuses]
    /\ telegram_token \in [Bots -> BOOLEAN]
    /\ delivery_mode \in [Bots -> Modes]
    /\ webhook_secret = [b \in Bots |-> NoSecret]
    /\ webhook_url = [b \in Bots |-> NoUrl]
    /\ updated_at = [b \in Bots |-> 0]

\* ---- BotViewSet.set_webhook, up to the requests.post call ----
SetWebhookCall(b, custom_url) ==
    /\ ApiFree
    /\ IF ~telegram_token[b]
       THEN /\ api' = [ApiDone("set_webhook", b, 400, FALSE) EXCEPT
                           !.before = Snapshot(b), !.custom_url = custom_url]
            /\ UNCHANGED dbvars
       ELSE /\ webhook_url' = [webhook_url EXCEPT ![b] = IF custom_url # NoUrl THEN custom_url ELSE @]
            /\ webhook_secret' = [webhook_secret EXCEPT ![b] = IF @ = NoSecret THEN GeneratedSecret ELSE @]
            /\ delivery_mode' = [delivery_mode EXCEPT ![b] = "webhook"]
            /\ api' = [ApiWaiting("set_webhook", b, TRUE) EXCEPT
                           !.before = Snapshot(b), !.custom_url = custom_url]
            /\ UNCHANGED <<status, telegram_token, updated_at>>

\* the three ways the setWebhook call ends: ok true, ok false, exception
TelegramOutcomes == {"ok", "rejected", "raised"}

\* the rollback branches forgotten
SetWebhookModeAfter_NoRollback(outcome, mode) == mode

\* the rollback taken on every answer
SetWebhookModeAfter_AlwaysRollback(outcome, mode) == "polling"

\* the persisted mode after Telegram's answer to setWebhook
SetWebhookModeAfter(outcome, mode) ==
    IF outcome = "ok" THEN mode ELSE "polling"

\* BotViewSet.set_webhook, from Telegram's answer to the Response
SetWebhookReply(outcome) ==
    /\ api.pc = "telegram"
    /\ api.op = "set_webhook"
    /\ delivery_mode' = [delivery_mode EXCEPT ![api.bot] = SetWebhookModeAfter(outcome, @)]
    /\ api' = [api EXCEPT !.pc = "done", !.telegram = outcome,
                          !.code = CASE outcome = "ok" -> 200
                                     [] outcome = "rejected" -> 400
                                     [] OTHER -> 500,
                          !.success = (outcome = "ok")]
    /\ UNCHANGED <<status, telegram_token, webhook_secret, webhook_url, updated_at>>

\* BotViewSet.delete_webhook, up to the requests.post call
DeleteWebhookCall(b) ==
    /\ ApiFree
    /\ IF delivery_mode[b] # "webhook"
       THEN api' = ApiDone("delete_webhook", b, 200, TRUE)
       ELSE api' = ApiWaiting("delete_webhook", b, FALSE)
    /\ UNCHANGED dbvars

\* the mode switched only when Telegram confirms the deletion
DeleteWebhookModeAfter_OnlyIfOk(outcome, mode) ==
    IF outcome = "ok" THEN "polling" ELSE mode

\* the persisted mode after Telegram's answer to deleteWebhook
DeleteWebhookModeAfter(outcome, mode) == "polling"

\* BotViewSet.delete_webhook, from Telegram's answer to the Response
DeleteWebhookReply(outcome) ==
    /\ api.pc = "telegram"
    /\ api.op = "delete_webhook"
    /\ delivery_mode' = [delivery_mode EXCEPT ![api.bot] = DeleteWebhookModeAfter(outcome, @)]
    /\ api' = [api EXCEPT !.pc = "done", !.telegram = outcome, !.code = 200, !.success = TRUE]
    /\ UNCHANGED <<status, telegram_token, webhook_secret, webhook_url, updated_at>>

\* ---- rate limiting: rate_limit, RegisterView.create, rate_limit_api_key ----
Purposes == {"login", "register", "public_api"}               \* key_prefix
Limit == [login |-> 5, register |-> 3, public_api |-> 100]    \* limit: requests per period
Period == [login |-> 60, register |-> 3600, public_api |-> 60] \* period, in seconds
RateKeys == {"k1", "k2"}       \* client IPs, or API key ids for public_api
\* the keys that send requests: two client IPs, one API key
Clients(p) == IF p = "public_api" THEN {"k1"} ELSE RateKeys

\* cache.get(cache_key, 0)
CacheGet(k) == IF cache[k].ttl > 0 THEN cache[k].value ELSE 0

\* the remaining time to live cache.set(cache_key, value, period) gives the key
CacheSetTtl(k) == TicksPerWindow

\* no rate-limited request has been made yet
RlIdle ==
    [key |-> "none", pc |-> "idle", nth |-> 0, current_count |-> 0,
     outcome |-> "none", code |-> 0, retry_after |-> 0]

\* a request arrives: cache.get, then Throttled when the count has reached the limit
RateLimitCheck(k) ==
    /\ rl.pc # "checked"
    /\ rl_window[k].left = 0 \/ rl_window[k].n < Limit[rl_purpose] + MaxOverLimit
    /\ LET nth == IF rl_window[k].left = 0 THEN 1 ELSE rl_window[k].n + 1 IN
       /\ rl_window' = [rl_window EXCEPT ![k] =
                           [n |-> nth, left |-> IF @.left = 0 THEN TicksPerWindow ELSE @.left]]
       /\ IF CacheGet(k) >= Limit[rl_purpose]
          THEN rl' = [key |-> k, pc |-> "done", nth |-> nth, current_count |-> CacheGet(k),
                      outcome |-> "throttled", code |-> 429,
                      retry_after |-> Period[rl_purpose]]
          ELSE rl' = [key |-> k, pc |-> "checked", nth |-> nth, current_count |-> CacheGet(k),
                      outcome |-> "none", code |-> 0, retry_after |-> 0]
    /\ UNCHANGED <<rl_purpose, cache, counter_due>>

\* cache.set(cache_key, current_count + 1, period), then the view runs; RegisterView.create
\* reaches it only after serializer.is_valid and serializer.save
RateLimitCount ==
    /\ rl.pc = "checked"
    /\ cache' = [cache EXCEPT ![rl.key] = [value |-> rl.current_count + 1, ttl |-> CacheSetTtl(rl.key)]]
    /\ counter_due' = [counter_due EXCEPT ![rl.key] =
                           IF cache[rl.key].ttl = 0 THEN TicksPerWindow ELSE @]
    /\ rl' = [rl EXCEPT !.pc = "done", !.outcome = "admitted", !.code = 200]
    /\ UNCHANGED <<rl_purpose, rl_window>>

\* RegisterView.create: serializer.is_valid(raise_exception=True) raises before the count is written
RegisterInvalid ==
    /\ rl.pc = "checked"
    /\ rl_purpose = "register"
    /\ rl' = [rl EXCEPT !.pc = "done", !.outcome = "invalid", !.code = 400]
    /\ UNCHANGED <<rl_purpose, cache, rl_window, counter_due>>

\* one clock tick (Period / TicksPerWindow seconds) passes; keys whose time is up expire
RateTick ==
    /\ cache' = [k \in RateKeys |->
                   IF cache[k].ttl <= 1 THEN [value |-> 0, ttl |-> 0]
                   ELSE [cache[k] EXCEPT !.ttl = @ - 1]]
    /\ rl_window' = [k \in RateKeys |->
                       IF rl_window[k].left <= 1 THEN [n |-> 0, left |-> 0]
                       ELSE [rl_window[k] EXCEPT !.left = @ - 1]]
    /\ counter_due' = [k \in RateKeys |-> IF counter_due[k] = 0 THEN 0 ELSE counter_due[k] - 1]
    /\ UNCHANGED <<rl_purpose, rl>>

\* no rate-limited endpoint has been called
InitRateIdle ==
    /\ cache = [k \in RateKeys |-> [value |-> 0, ttl |-> 0]]
    /\ rl = RlIdle
    /\ rl_window = [k \in RateKeys |-> [n |-> 0, left |-> 0]]
    /\ counter_due = [k \in RateKeys |-> 0]

\* ---- requests of one rate-limit key handled concurrently ----
RaceKey == "k1"

\* a request the decorator has not started to handle
NewRequest == [pc |-> "new", current_count |-> 0]

\* wrapped_view up to the comparison: cache.get, then Throttled or on to cache.set
RaceCheck(i) ==
    /\ rreq[i].pc = "new"
    /\ rreq' = [rreq EXCEPT ![i] =
                  [pc |-> IF CacheGet(RaceKey) >= Limit[rl_purpose] THEN "throttled" ELSE "checked",
                   current_count |-> CacheGet(RaceKey)]]
    /\ UNCHANGED <<rl_purpose, cache, rl, rl_window, counter_due>>

\* cache.set(cache_key, current_count + 1, period) with the count read earlier, then the view
RaceCount(i) ==
    /\ rreq[i].pc = "checked"
    /\ cache' = [cache EXCEPT ![RaceKey] =
                    [value |-> rreq[i].current_count + 1, ttl |-> CacheSetTtl(RaceKey)]]
    /\ counter_due' = [counter_due EXCEPT ![RaceKey] =
                           IF cache[RaceKey].ttl = 0 THEN TicksPerWindow ELSE @]
    /\ rreq' = [rreq EXCEPT ![i].pc = "admitted"]
    /\ UNCHANGED <<rl_purpose, rl, rl_window>>

\* no concurrent request is in flight
InitRaceIdle == rreq = <<>>

\* ---- AI feature governance: AIUsageLog, AIService, the AI views ----
Users == {"u1", "u2"}
Features == {"improve_instruction", "generate_content"}      \* the FEATURE_CHOICES the views use
Plans == {"Free", "Enterprise", "Trial"}   \* a finite limit row, an unlimited row, no row
Periods == {"daily", "weekly", "monthly"}                    \* PERIOD_CHOICES
Ages == 0..2     \* age of a row: at most 1 day, at most 7 days, at most 30 days
\* the callers of the provider: AIService.generate itself, the views of ai_settings,
\* the views of bots.ai_views
Callers == {"service", "ai_settings_views", "bots_ai_views"}

\* the rows with created_at >= start_date, for the start_date get_usage_count computes
PeriodAges(period) ==
    CASE period = "daily" -> {0}
      [] period = "weekly" -> {0, 1}
      [] period = "monthly" -> {0, 1, 2}
      [] OTHER -> {0, 1}

\* get_usage_count with rows of any outcome counted
GetUsageCount_AnyOutcome(log, u, f, period) ==
    Cardinality({i \in 1..Len(log) :
        log[i].user = u /\ log[i].feature = f /\ log[i].age \in PeriodAges(period)})

\* AIUsageLog.get_usage_count
GetUsageCount(log, u, f, period) ==
    Cardinality({i \in 1..Len(log) :
        /\ log[i].user = u /\ log[i].feature = f
        /\ log[i].age \in PeriodAges(period) /\ log[i].success})

\* can_use_feature with the comparison off by one
CanUseFeature_OffByOne(u, f) ==
    /\ feature_active[f]
    /\ user_plan[u] # "Trial"
    /\ \/ user_plan[u] = "Enterprise"
       \/ GetUsageCount(usage_log, u, f, usage_limit.period) <= usage_limit.max_uses

\* AIUsageLog.can_use_feature (the boolean of the pair it returns)
CanUseFeature(u, f) ==
    /\ feature_active[f]
    /\ user_plan[u] # "Trial"
    /\ \/ user_plan[u] = "Enterprise"
       \/ GetUsageCount(usage_log, u, f, usage_limit.period) < usage_limit.max_uses

\* the view gates of ai_settings.views: ai_service.check_limit before generate
ViewCheckLimit(via, u, f) ==
    IF via = "bots_ai_views" THEN TRUE ELSE CanUseFeature(u, f)

AiIdle ==
    [user |-> "none", feature |-> "none", via |-> "none", pc |-> "idle",
     provider_called |-> FALSE, logged |-> "none", error |-> "none", code |-> 0]

\* log_usage that rewrites the newest row of the log instead of adding one
LogUsage_Overwrite(u, f, success) ==
    IF usage_log = <<>>
    THEN <<[user |-> u, feature |-> f, success |-> success, age |-> 0]>>
    ELSE [usage_log EXCEPT ![Len(usage_log)] =
             [user |-> u, feature |-> f, success |-> success, age |-> 0]]

\* AIService.log_usage: AIUsageLog.objects.create
LogUsage(u, f, success) ==
    Append(usage_log, [user |-> u, feature |-> f, success |-> success, age |-> 0])

\* a call arrives: the view's check, then AIService.generate up to the provider call;
\* has_input: the request carries an instruction or title; has_model: get_model finds a model
AiRequest(u, f, via, has_input, has_model) ==
    /\ ai.pc # "provider"
    /\ LET req == [AiIdle EXCEPT !.user = u, !.feature = f, !.via = via] IN
       ai' = IF via # "service" /\ ~has_input
             THEN [req EXCEPT !.pc = "done", !.error = "validation", !.code = 400]
             ELSE IF via = "bots_ai_views"
             THEN [req EXCEPT !.pc = "provider", !.provider_called = TRUE]
             ELSE IF ~ViewCheckLimit(via, u, f) \/ ~CanUseFeature(u, f)
             THEN [req EXCEPT !.pc = "done", !.error = "limit", !.code = 429]
             ELSE IF ~has_model
             THEN [req EXCEPT !.pc = "done", !.error = "service", !.code = 500]
             ELSE [req EXCEPT !.pc = "provider", !.provider_called = TRUE]
    /\ UNCHANGED <<user_plan, feature_active, usage_limit, usage_log>>

\* the provider answers or raises: generate logs the use or the failure and returns or
\* re-raises; the views of bots.ai_views write no log
AiProviderReturn(ok) ==
    /\ ai.pc = "provider"
    /\ IF ai.via = "bots_ai_views"
       THEN /\ usage_log' = usage_log
            /\ ai' = [ai EXCEPT !.pc = "done", !.code = IF ok THEN 200 ELSE 500,
                                 !.error = IF ok THEN "none" ELSE "provider"]
       ELSE /\ Len(usage_log) < MaxUses
            /\ usage_log' = LogUsage(ai.user, ai.feature, ok)
            /\ ai' = [ai EXCEPT !.pc = "done", !.code = IF ok THEN 200 ELSE 500,
                                 !.logged = IF ok THEN "success" ELSE "failure",
                                 !.error = IF ok THEN "none" ELSE "provider"]
    /\ UNCHANGED <<user_plan, feature_active, usage_limit>>

\* time passes: the oldest row of an age class enters the next class; a row older than
\* the start_date of the configured period is never counted again and is dropped here
AiElapse(i) ==
    /\ i \in 1..Len(usage_log)
    /\ IF i = 1 THEN TRUE ELSE usage_log[i - 1].age > usage_log[i].age
    /\ usage_log' = IF usage_log[i].age + 1 \notin PeriodAges(usage_limit.period)
                     THEN SubSeq(usage_log, 2, Len(usage_log))
                     ELSE [usage_log EXCEPT ![i].age = @ + 1]
    /\ UNCHANGED <<user_plan, feature_active, usage_limit, ai>>

\* no AI feature has been used
InitAiIdle ==
    /\ usage_log = <<>>
    /\ ai = AiIdle

\* ---- AIService.generate called concurrently by one user for one feature ----
Calls == 1..MaxCalls
GenUser == "u1"
GenFeature == "improve_instruction"

\* a call that has not read the limit yet
NotStarted == [pc |-> "start", seen |-> 0]

\* generate, step 1: check_limit reads the usage count; AILimitError if it is refused
GenCheckLimit(c) ==
    /\ gen[c].pc = "start"
    /\ gen' = [gen EXCEPT ![c] =
                 [pc |-> IF CanUseFeature(GenUser, GenFeature) THEN "provider" ELSE "limit_error",
                  seen |-> GetUsageCount(usage_log, GenUser, GenFeature, usage_limit.period)]]
    /\ UNCHANGED <<user_plan, feature_active, usage_limit, usage_log, ai>>

\* generate, steps 3 and 4: the provider answers or raises and log_usage writes the row
GenProviderReturn(c, ok) ==
    /\ gen[c].pc = "provider"
    /\ usage_log' = LogUsage(GenUser, GenFeature, ok)
    /\ gen' = [gen EXCEPT ![c].pc = IF ok THEN "returned" ELSE "raised"]
    /\ UNCHANGED <<user_plan, feature_active, usage_limit, ai>>

\* no concurrent call is in flight
InitGenerateIdle == gen = [c \in Calls |-> NotStarted]

\* ---- the Celery task aggregate_token_usage ----
Aggregations == 1..MaxAggregations

\* the keyword arguments an execution is called with
TokenArgs == [input_tokens : {0, 1}, output_tokens : {0, 2}, total_tokens : {0, 3}]

\* no TokenUsage row for the bot and date
NoTokenUsage == [exists |-> FALSE, input_tokens |-> 0, output_tokens |-> 0]

\* lines 169-171: total_tokens alone is split into two halves
EffectiveTokens(a) ==
    IF a.total_tokens > 0 /\ a.input_tokens = 0 /\ a.output_tokens = 0
    THEN [input_tokens |-> a.total_tokens \div 2,
          output_tokens |-> a.total_tokens - (a.total_tokens \div 2)]
    ELSE [input_tokens |-> a.input_tokens, output_tokens |-> a.output_tokens]

\* lines 173-180: get_or_create inserts the row with the values of the execution, or
\* loads the row as it is
AggGetOrCreate(e) ==
    /\ agg[e].pc = "queued"
    /\ IF token_usage.exists
       THEN /\ agg' = [agg EXCEPT ![e].pc = "loaded",
                                  ![e].row_input = token_usage.input_tokens,
                                  ![e].row_output = token_usage.output_tokens]
            /\ UNCHANGED token_usage
       ELSE /\ token_usage' = [exists |-> TRUE,
                              input_tokens |-> EffectiveTokens(agg[e].args).input_tokens,
                              output_tokens |-> EffectiveTokens(agg[e].args).output_tokens]
            /\ agg' = [agg EXCEPT ![e].pc = "done"]

\* lines 182-186: the values are added to the fields of the loaded instance and save()
\* writes the instance
AggSave(e) ==
    /\ agg[e].pc = "loaded"
    /\ token_usage' = [exists |-> TRUE,
                       input_tokens |-> agg[e].row_input
                                           + EffectiveTokens(agg[e].args).input_tokens,
                       output_tokens |-> agg[e].row_output
                                           + EffectiveTokens(agg[e].args).output_tokens]
    /\ agg' = [agg EXCEPT ![e].pc = "done"]

\* the sums of the values the first k executions use
RECURSIVE SumInput(_)
SumInput(k) ==
    IF k = 0 THEN 0 ELSE SumInput(k - 1) + EffectiveTokens(agg[k].args).input_tokens

RECURSIVE SumOutput(_)
SumOutput(k) ==
    IF k = 0 THEN 0 ELSE SumOutput(k - 1) + EffectiveTokens(agg[k].args).output_tokens

\* no execution has been sent
InitAggregateIdle ==
    /\ token_usage = NoTokenUsage
    /\ agg = <<>>

\* ---- the Celery task process_telegram_update ----
MaxRetries == 3                      \* @shared_task(bind=True, max_retries=3)

\* the statements of the task body that can raise, in order; the rows written before each
\*   1 Bot.objects.get               5 history, gemini.generate_response
\*   2 MessageEvent 'received'       6 ChatMessage role='model'
\*   3 TelegramUser, message_count   7 send_telegram_message.delay
\*   4 ChatSession, ChatMessage user 8 MessageEvent 'sent'
Statements == 1..8
NoFailure == 9

\* what one update has left in the database
NoRows ==
    [received |-> 0, message_count |-> 0, user_messages |-> 0, model_messages |-> 0,
     replies |-> 0, sent |-> 0, errors |-> 0]

\* the task has not been sent
TaskIdle ==
    [pc |-> "idle", has_message |-> FALSE, retries |-> 0, executions |-> 0,
     countdowns |-> <<>>, swallowed |-> 0]

\* the countdown of self.retry, growing by a fixed step
Countdown_Linear(retries) == 5 * (retries + 1)

\* the countdown of self.retry: 5 * (2 ** self.request.retries)
Countdown(retries) == 5 * (2 ^ retries)

\* the rows the body writes when statement fail_at raises (NoFailure: none does)
BodyWrites(db, fail_at) ==
    [db EXCEPT !.received = @ + (IF fail_at > 2 THEN 1 ELSE 0),
               !.message_count = @ + (IF fail_at > 3 THEN 1 ELSE 0),
               !.user_messages = @ + (IF fail_at > 4 THEN 1 ELSE 0),
               !.model_messages = @ + (IF fail_at > 6 THEN 1 ELSE 0),
               !.replies = @ + (IF fail_at > 7 THEN 1 ELSE 0),
               !.sent = @ + (IF fail_at > 8 THEN 1 ELSE 0)]

\* the except clause that records the error event and swallows a failure of the insert
\* but counts every failure as recorded
TrackError_AlwaysRecorded(db, insert_ok) == [db EXCEPT !.errors = @ + 1]

\* the except clause, lines 131-138: the error event, a failure of the insert swallowed
TrackError(db, insert_ok) == [db EXCEPT !.errors = @ + (IF insert_ok THEN 1 ELSE 0)]

\* self.retry(exc=e, countdown=...): send the task again with retries + 1 after the
\* countdown, or raise exc when max_retries is used up
Retry(t) ==
    IF t.retries >= MaxRetries
    THEN [t EXCEPT !.pc = "failed"]
    ELSE [t EXCEPT !.pc = "retry_wait",
                   !.retries = @ + 1,
                   !.countdowns = Append(@, Countdown(t.retries))]

\* one execution of the task by a worker.  Without a Bot row line 31 raises and the
\* insert of the error event, which names the bot by bot_id, fails as well; an update
\* without a message returns at line 36
TaskRun(fail_at, insert_ok) ==
    /\ task.pc = "queued"
    /\ bot_row \/ (fail_at = 1 /\ ~insert_ok)
    /\ task.has_message \/ fail_at \in {1, NoFailure}
    /\ fail_at = NoFailure => insert_ok
    /\ LET ran == [task EXCEPT !.executions = @ + 1]
           written == IF task.has_message THEN BodyWrites(task_db, fail_at) ELSE task_db
       IN IF fail_at = NoFailure
          THEN /\ task' = [ran EXCEPT !.pc = "succeeded"]
               /\ task_db' = written
          ELSE /\ task' = Retry([ran EXCEPT !.swallowed = @ + (IF insert_ok THEN 0 ELSE 1)])
               /\ task_db' = TrackError(written, insert_ok)
    /\ UNCHANGED bot_row

\* the countdown of a retry is over: the task is delivered to a worker again
TaskCountdownOver ==
    /\ task.pc = "retry_wait"
    /\ task' = [task EXCEPT !.pc = "queued"]
    /\ UNCHANGED <<bot_row, task_db>>

\* the Bot row is deleted while the task is queued or waits for a retry
BotRowDeleted ==
    /\ bot_row
    /\ task.pc \in {"queued", "retry_wait"}
    /\ bot_row' = FALSE
    /\ UNCHANGED <<task, task_db>>

\* no update is being processed
InitTaskIdle ==
    /\ bot_row = TRUE
    /\ task = TaskIdle
    /\ task_db = NoRows

\* ---- BotManager call by call: add_bot, remove_bot and the steps of _run_bot ----
\* nobody holds BotManager._lock
NoHolder == "none"

\* no call of the manager is in flight
NoCall == [op |-> "none", token |-> "none", pc |-> "returned", task |-> NoTask, result |-> FALSE]

\* _run_bot is over: finally closes the session of its Bot and drops the token from
\* bot_instances (lines 235-243); the task is done
RunBotEnd(b, how) ==
    LET t == running_bots[b] IN
    /\ task_phase' = [task_phase EXCEPT ![t] = "done"]
    /\ task_result' = [task_result EXCEPT ![t] = how]
    /\ bot_session' = [bot_session EXCEPT ![t] = IF @ = "open" THEN "closed" ELSE @]
    /\ bot_instances' = IF bot_session[t] = "open" THEN bot_instances \ {b} ELSE bot_instances

\* the caller awaits add_bot(token): the lock is taken, lines 43-58 run without an await
\* and the lock is released
AddBotCall(b) ==
    /\ call.pc = "returned"
    /\ lock = NoHolder
    /\ LET w == AddBot(WorkerState, b) IN
       /\ w.next_task <= MaxTasks + 1
       /\ running_bots' = w.running_bots
       /\ bot_instances' = w.bot_instances
       /\ task_phase' = w.task_phase
       /\ next_task' = w.next_task
       /\ call' = [op |-> "add_bot", token |-> b, pc |-> "returned",
                   task |-> w.running_bots[b], result |-> w.add_calls[1].result]
       /\ task_token' = IF w.next_task # next_task
                         THEN [task_token EXCEPT ![w.running_bots[b]] = b]
                         ELSE task_token
    /\ UNCHANGED <<lock, bot_session, task_result, routers_attached>>

\* the caller awaits remove_bot(token), lines 70-83: the lock is taken; False for a token
\* that is no key; a task that is not done is cancelled and awaited with the lock held
RemoveBotCall(b) ==
    /\ call.pc = "returned"
    /\ lock = NoHolder
    /\ IF running_bots[b] = NoTask
       THEN /\ call' = [op |-> "remove_bot", token |-> b, pc |-> "returned",
                        task |-> NoTask, result |-> FALSE]
            /\ UNCHANGED <<lock, task_phase>>
       ELSE /\ call' = [op |-> "remove_bot", token |-> b, pc |-> "await_task",
                        task |-> running_bots[b], result |-> FALSE]
            /\ lock' = "remove_bot"
            /\ task_phase' = [task_phase EXCEPT ![running_bots[b]] =
                                  IF @ = "done" THEN @ ELSE "cancelling"]
    /\ UNCHANGED <<running_bots, bot_instances, next_task, bot_session, task_result,
                   task_token, routers_attached>>

\* remove_bot that cancels the task and goes on without awaiting it
RemoveBotFinish_NoAwait ==
    /\ call.pc = "await_task"
    /\ bot_session' = [bot_session EXCEPT ![call.task] =
                           IF call.token \in bot_instances /\ @ = "open" THEN "closed" ELSE @]
    /\ bot_instances' = bot_instances \ {call.token}
    /\ running_bots' = [running_bots EXCEPT ![call.token] = NoTask]
    /\ lock' = NoHolder
    /\ call' = [call EXCEPT !.pc = "returned", !.result = TRUE]
    /\ UNCHANGED <<task_phase, next_task, task_result, task_token, routers_attached>>

\* remove_bot, lines 87-98, once the task is done: the session of a client that is
\* still stored is closed, both keys are deleted, the lock is released, True
RemoveBotFinish ==
    /\ call.pc = "await_task"
    /\ task_phase[call.task] = "done"
    /\ bot_session' = [bot_session EXCEPT ![call.task] =
                           IF call.token \in bot_instances /\ @ = "open" THEN "closed" ELSE @]
    /\ bot_instances' = bot_instances \ {call.token}
    /\ running_bots' = [running_bots EXCEPT ![call.token] = NoTask]
    /\ lock' = NoHolder
    /\ call' = [call EXCEPT !.pc = "returned", !.result = TRUE]
    /\ UNCHANGED <<task_phase, next_task, task_result, task_token, routers_attached>>

\* _run_bot starts, lines 207-219: Bot(...) is constructed and stored in bot_instances,
\* then get_me is awaited
RunBotInit(b) ==
    /\ running_bots[b] # NoTask
    /\ task_phase[running_bots[b]] = "created"
    /\ task_phase' = [task_phase EXCEPT ![running_bots[b]] = "get_me"]
    /\ bot_session' = [bot_session EXCEPT ![running_bots[b]] = "open"]
    /\ bot_instances' = bot_instances \cup {b}
    /\ UNCHANGED <<running_bots, next_task, task_result, task_token, routers_attached, lock, call>>

\* get_me returns, lines 220-226: create_dispatcher, then start_polling if a Dispatcher
\* came back; an exception of create_dispatcher is caught by except Exception
RunBotGetMeReturns(b) ==
    /\ running_bots[b] # NoTask
    /\ task_phase[running_bots[b]] = "get_me"
    /\ LET dp == CreateDispatcher(routers_attached) IN
       IF dp = "ok"
       THEN /\ task_phase' = [task_phase EXCEPT ![running_bots[b]] = "polling"]
            /\ UNCHANGED <<bot_session, bot_instances, task_result>>
       ELSE RunBotEnd(b, dp)
    /\ routers_attached' = TRUE
    /\ UNCHANGED <<running_bots, next_task, task_token, lock, call>>

\* get_me or start_polling raises, lines 228-234: TelegramConflictError is logged as a
\* warning, any other Exception as an error
RunBotRaises(b, exc) ==
    /\ running_bots[b] # NoTask
    /\ task_phase[running_bots[b]] \in {"get_me", "polling"}
    /\ RunBotEnd(b, exc)
    /\ UNCHANGED <<running_bots, next_task, task_token, routers_attached, lock, call>>

\* the cancelled task runs again, lines 230-232: CancelledError is re-raised; a task
\* cancelled before its first step never runs _run_bot
RunBotCancelled(b) ==
    /\ running_bots[b] # NoTask
    /\ task_phase[running_bots[b]] = "cancelling"
    /\ RunBotEnd(b, "cancelled")
    /\ UNCHANGED <<running_bots, next_task, task_token, routers_attached, lock, call>>

\* the caller awaits stop_all(), lines 193-198: the lock is taken and, for the first key of
\* running_bots, remove_bot is awaited, which waits for the same lock; with no key
\* stop_all returns
StopAllCall ==
    /\ call.pc = "returned"
    /\ lock = NoHolder
    /\ IF \E b \in Bots : running_bots[b] # NoTask
       THEN /\ lock' = "stop_all"
            /\ call' = [op |-> "stop_all", token |-> "none", pc |-> "await_lock",
                        task |-> NoTask, result |-> FALSE]
       ELSE /\ lock' = lock
            /\ call' = [op |-> "stop_all", token |-> "none", pc |-> "returned",
                        task |-> NoTask, result |-> TRUE]
    /\ UNCHANGED <<running_bots, bot_instances, task_phase, next_task, bot_session,
                   task_result, task_token, routers_attached>>

InitManagerIdle ==
    /\ call = NoCall
    /\ bot_session = [t \in Tasks |-> "none"]
    /\ task_result = [t \in Tasks |-> "none"]
    /\ task_token = [t \in Tasks |-> "none"]

\* ---- dynamic forms: start_form, handle_form_input and the router chain ----
FormName == "f1"
NoKey == "absent"                    \* the key is not in the data of the FSMContext
NoState == "none"                    \* FSMContext state None

\* steps a 'steps' list is built from; min and max are min_length and max_length of a
\* text step, min_value and max_value of a number step
StepPool ==
    { [field |-> "name", type |-> "text", required |-> TRUE, min |-> 2, max |-> 4, options |-> {}],
      [field |-> "Age", type |-> "number", required |-> FALSE, min |-> 1, max |-> 120, options |-> {}],
      [field |-> "plan_type", type |-> "choice", required |-> FALSE, min |-> 0, max |-> 0,
       options |-> {"pro"}],
      [field |-> "Email", type |-> "email", required |-> FALSE, min |-> 0, max |-> 0, options |-> {}] }

\* configurations that parse_form_config accepts, with at least one step
FormConfigs == UNION {[1..n -> StepPool] : n \in 1..MaxSteps}

\* message.text of the text messages a user sends, with what the validation reads:
\* len(value), value.strip() == '', float(value), '@' in value and '.' after it
Texts ==
    { [text |-> "7", len |-> 1, blank |-> FALSE, numeric |-> TRUE, number |-> 7, email |-> FALSE],
      [text |-> "150", len |-> 3, blank |-> FALSE, numeric |-> TRUE, number |-> 150, email |-> FALSE],
      [text |-> "pro", len |-> 3, blank |-> FALSE, numeric |-> FALSE, number |-> 0, email |-> FALSE],
      [text |-> "a@b.c", len |-> 5, blank |-> FALSE, numeric |-> FALSE, number |-> 0, email |-> TRUE] }

\* ''.join(word.capitalize() for word in field.split('_'))
StateName(field) ==
    CASE field = "name" -> "Name"
      [] field = "Age" -> "Age"
      [] field = "plan_type" -> "PlanType"
      [] field = "Email" -> "Email"

\* create_form_states: the attributes of the StatesGroup class are the keys of
\* state_names, which are the field names
FormStatesAttrs(steps) == {steps[i].field : i \in DOMAIN steps}

\* getattr(FormStates, state_name)
HasState(steps, field) == StateName(field) \in FormStatesAttrs(steps)

\* validate_form_step
ValidateFormStep(step, t) ==
    IF step.required /\ t.blank THEN [ok |-> FALSE, error |-> "required"]
    ELSE IF step.type = "text" /\ t.len < step.min THEN [ok |-> FALSE, error |-> "min_length"]
    ELSE IF step.type = "text" /\ t.len > step.max THEN [ok |-> FALSE, error |-> "max_length"]
    ELSE IF step.type = "number" /\ ~t.numeric THEN [ok |-> FALSE, error |-> "not_a_number"]
    ELSE IF step.type = "number" /\ t.number < step.min THEN [ok |-> FALSE, error |-> "min_value"]
    ELSE IF step.type = "number" /\ t.number > step.max THEN [ok |-> FALSE, error |-> "max_value"]
    ELSE IF step.type = "choice" /\ t.text \notin step.options THEN [ok |-> FALSE, error |-> "choose_one"]
    ELSE IF step.type = "email" /\ ~t.email THEN [ok |-> FALSE, error |-> "invalid_email"]
    ELSE [ok |-> TRUE, error |-> "none"]

\* the data of an FSMContext without the keys of a form
NoForm == [form_name |-> NoKey, current_step |-> 0, form_data |-> <<>>, form_config |-> <<>>]

\* FormModeFilter: 'form_name' in data and 'form_config' in data
FormModeFilter(d) == d.form_name # NoKey /\ d.form_config # <<>>

\* messages sent to the user
Prompt(i) == [kind |-> "prompt", step |-> i, data |-> <<>>, error |-> "none"]
ValidationMessage(e) == [kind |-> "validation", step |-> 0, data |-> <<>>, error |-> e]
Summary(data) == [kind |-> "summary", step |-> 0, data |-> data, error |-> "none"]
ChatReply == [kind |-> "chat", step |-> 0, data |-> <<>>, error |-> "none"]
Welcome == [kind |-> "welcome", step |-> 0, data |-> <<>>, error |-> "none"]
Apology(o) == [kind |-> "apology", step |-> 0, data |-> <<>>, error |-> o]

\* what a handler leaves: the data and state of the FSMContext, the messages sent, the
\* exception that ended it, whether a user ChatMessage was saved and the AI called
Handled(d, st, replies, raised, chat) ==
    [data |-> d, state |-> st, replies |-> replies, raised |-> raised, chat_processed |-> chat]

\* start_form for a bot that is found and a form whose configuration parses
StartForm(d, st) ==
    LET started == [form_name |-> FormName, current_step |-> 0, form_data |-> <<>>,
                    form_config |-> ui_form]
        first_step == ui_form[1]
    IN IF HasState(ui_form, first_step.field)
       THEN Handled(started, StateName(first_step.field), <<Prompt(0)>>, "none", FALSE)
       ELSE Handled(started, st, <<>>, "AttributeError", FALSE)

\* handle_form_submission with no submit_handler: state.clear(), then the summary
HandleFormSubmission(form_data) ==
    Handled(NoForm, NoState, <<Summary(form_data)>>, "none", FALSE)

\* the branch of handle_form_input for an input that fails validation, storing the
\* input all the same
FormInputInvalid_Stored(d, st, step, t, error) ==
    Handled([d EXCEPT !.form_data = (step.field :> t.text) @@ @], st,
            <<ValidationMessage(error)>>, "none", FALSE)

\* the branch of handle_form_input for an input that fails validation, lines 125-127
FormInputInvalid(d, st, step, t, error) ==
    Handled(d, st, <<ValidationMessage(error)>>, "none", FALSE)

\* handle_form_input
HandleFormInput(d, st, t) ==
    LET steps == d.form_config
        current_step == d.current_step
    IN IF current_step >= Len(steps) THEN HandleFormSubmission(d.form_data)
       ELSE
       LET step == steps[current_step + 1]
           v == ValidateFormStep(step, t)
           form_data == (step.field :> t.text) @@ d.form_data
           stored == [d EXCEPT !.form_data = form_data]
           next_step_index == current_step + 1
       IN IF ~v.ok THEN FormInputInvalid(d, st, step, t, v.error)
          ELSE IF next_step_index >= Len(steps) THEN HandleFormSubmission(form_data)
          ELSE IF HasState(steps, steps[next_step_index + 1].field)
          THEN Handled([stored EXCEPT !.current_step = next_step_index],
                       StateName(steps[next_step_index + 1].field),
                       <<Prompt(next_step_index)>>, "none", FALSE)
          ELSE Handled(stored, st, <<>>, "AttributeError", FALSE)

\* the test of handle_message that never finds a form
ChatSeesForm_Never(d) == FALSE

\* handle_message, line 82: session_data.get('form_name') and session_data.get('form_config')
ChatSeesForm(d) == d.form_name # NoKey /\ d.form_config # <<>>

\* how the awaits of handle_message end: get_bot_by_token raises or returns None,
\* get_or_create_telegram_user raises or returns a blocked user, the chat session
\* cannot be created or read, process_message raises or returns no content,
\* generate_bot_response raises after the user message was saved, or all succeed
ChatOutcomes ==
    {"get_bot_raises", "bot_not_found", "get_user_raises", "blocked", "session_raises",
     "process_raises", "empty_content", "generate_raises", "ok"}

\* the outcomes that end handle_message before it reads the FSM data at line 81
BeforeFormCheck == {"get_bot_raises", "bot_not_found", "get_user_raises", "blocked"}

\* handle_message: an answer for every failure, nothing for a user in form mode, else
\* the user ChatMessage is saved, the AI is called and its text is sent
HandleMessage(d, st, o) ==
    IF o \in BeforeFormCheck THEN Handled(d, st, <<Apology(o)>>, "none", FALSE)
    ELSE IF ChatSeesForm(d) THEN Handled(d, st, <<>>, "none", FALSE)
    ELSE IF o \in {"session_raises", "process_raises", "empty_content"}
    THEN Handled(d, st, <<Apology(o)>>, "none", FALSE)
    ELSE IF o = "generate_raises" THEN Handled(d, st, <<Apology(o)>>, "none", TRUE)
    ELSE Handled(d, st, <<ChatReply>>, "none", TRUE)

\* no update has been handled
FmIdle ==
    [kind |-> "none", text |-> "none", handler |-> "none", in_form |-> FALSE, step |-> 0,
     raised |-> "none", replies |-> <<>>, chat_processed |-> FALSE]

\* the update was given to a handler, which left h
Dispatch(kind, text, handler, h) ==
    /\ fsm_data' = h.data
    /\ fsm_state' = h.state
    /\ fm' = [kind |-> kind, text |-> text, handler |-> handler,
              in_form |-> FormModeFilter(fsm_data), step |-> fsm_data.current_step,
              raised |-> h.raised, replies |-> h.replies, chat_processed |-> h.chat_processed]
    /\ UNCHANGED ui_form

\* callback query action_form_<FormName>: handle_dynamic_action calls start_form
FormButton == Dispatch("callback", "none", "start_form", StartForm(fsm_data, fsm_state))

\* a text message that is no command: forms_router takes it if FormModeFilter passes,
\* else chat_router
TextMessage(t) ==
    IF FormModeFilter(fsm_data)
    THEN Dispatch("text", t.text, "forms", HandleFormInput(fsm_data, fsm_state, t))
    ELSE \E o \in ChatOutcomes :
            Dispatch("text", t.text, "chat", HandleMessage(fsm_data, fsm_state, o))

\* a voice, audio, document or photo message: no handler of forms_router matches
\* (F.text), chat_router takes it
MediaMessage ==
    \E o \in ChatOutcomes :
        Dispatch("media", "none", "chat", HandleMessage(fsm_data, fsm_state, o))

\* /start: cmd_start clears the FSMContext and sends the welcome message
StartCommand ==
    Dispatch("command", "/start", "start", Handled(NoForm, NoState, <<Welcome>>, "none", FALSE))

InitFormsIdle ==
    /\ ui_form = <<CHOOSE s \in StepPool : s.field = "name">>
    /\ fsm_data = NoForm
    /\ fsm_state = NoState
    /\ fm = FmIdle

\* ---- concurrent deliveries of one user's updates: the handlers' writes ----
UpdateIds == 1..MaxUpdates

\* the handler the router chain gives a message to: cmd_start, cmd_dynamic,
\* handle_form_input or handle_message
HandlerKinds == {"start", "command", "form", "chat"}

\* an update Telegram has not delivered yet
NotDelivered == [pc |-> "pending", kind |-> "none", counted |-> 0]

\* the webhook view is entered for update i, which is given to handler kind; Telegram
\* delivers the updates in the order of their ids and does not wait for a response
\* before it delivers the next one
Arrive(i, kind) ==
    /\ updates[i].pc = "pending"
    /\ IF i = 1 THEN TRUE ELSE updates[i - 1].pc # "pending"
    /\ updates' = [updates EXCEPT ![i] = [pc |-> "arrived", kind |-> kind, counted |-> 0]]
    /\ UNCHANGED <<chat_messages, message_count>>

\* get_or_create_telegram_user, awaited by cmd_start and by handle_message: one call of
\* a sync function, which adds one to message_count and saves the row
GetOrCreateTelegramUser(i) ==
    /\ updates[i].pc = "arrived"
    /\ updates[i].kind \in {"start", "chat"}
    /\ message_count' = message_count + 1
    /\ updates' = [updates EXCEPT ![i].counted = @ + 1,
                                  ![i].pc = IF updates[i].kind = "chat" THEN "user" ELSE "done"]
    /\ UNCHANGED chat_messages

\* cmd_dynamic and handle_form_input: neither calls get_or_create_telegram_user nor
\* writes message_count (cmd_dynamic reads the row with aget_or_create)
HandleWithoutCount(i) ==
    /\ updates[i].pc = "arrived"
    /\ updates[i].kind \in {"command", "form"}
    /\ updates' = [updates EXCEPT ![i].pc = "done"]
    /\ UNCHANGED <<chat_messages, message_count>>

\* handle_message, lines 81-125: the chat session is found and process_message returns
\* the content of the message
ProcessMessage(i) ==
    /\ updates[i].pc = "user"
    /\ updates' = [updates EXCEPT ![i].pc = "content"]
    /\ UNCHANGED <<chat_messages, message_count>>

\* handle_message, lines 128-137: save_chat_message(role='user')
SaveUserMessage(i) ==
    /\ updates[i].pc = "content"
    /\ chat_messages' = Append(chat_messages, i)
    /\ updates' = [updates EXCEPT ![i].pc = "saved"]
    /\ UNCHANGED message_count

\* handle_message, lines 140-162: the AI answers and the answer is saved and sent
SendResponse(i) ==
    /\ updates[i].pc = "saved"
    /\ updates' = [updates EXCEPT ![i].pc = "done"]
    /\ UNCHANGED <<chat_messages, message_count>>

\* no update has been delivered
InitDeliveryIdle ==
    /\ updates = [i \in UpdateIds |-> NotDelivered]
    /\ chat_messages = <<>>
    /\ message_count = 0

\* ---- the command registry of the worker and the hot-reload monitor ----
NotCached == -1                      \* bot_id not in _command_registry

\* no lookup has been made
NoLookup == [bot |-> "none", result |-> 0]

\* the owner changes the commands of bot b and the Bot row is saved with them
EditCommands(b) ==
    /\ commands_db[b] < MaxEdits
    /\ commands_db' = [commands_db EXCEPT ![b] = @ + 1]
    /\ UNCHANGED <<command_registry, monitor_seen, cmd_lookup>>

\* _check_bots finds bot_updated_at > last_known_update for b: restart_bot and the new
\* timestamp; the branch makes no call into command_registry
MonitorDetectsUpdate(b) ==
    /\ commands_db[b] > monitor_seen[b]
    /\ monitor_seen' = [monitor_seen EXCEPT ![b] = commands_db[b]]
    /\ UNCHANGED <<commands_db, command_registry, cmd_lookup>>

\* get_commands_for_bot: load_commands_for_bot only if bot_id is not in the registry
GetCommandsForBot(b) ==
    LET loaded == IF command_registry[b] = NotCached
                  THEN [command_registry EXCEPT ![b] = commands_db[b]]
                  ELSE command_registry
    IN /\ command_registry' = loaded
       /\ cmd_lookup' = [bot |-> b, result |-> loaded[b]]
       /\ UNCHANGED <<commands_db, monitor_seen>>

\* the worker has started: nothing is cached, the monitor knows the rows as they are
InitCommandsIdle ==
    /\ commands_db = [b \in Bots |-> 0]
    /\ command_registry = [b \in Bots |-> NotCached]
    /\ monitor_seen = [b \in Bots |-> 0]
    /\ cmd_lookup = NoLookup

\* ---- shutdown: the except clauses of main(), BotMonitor.stop, BotManager.stop_all ----
\* main() is in its sleep loop
ShutdownIdle == [pc |-> "running", tokens |-> <<>>]

\* list(self.running_bots.keys()): the keys, in one of their orders
KeyOrders ==
    LET keys == {b \in Bots : running_bots[b] # NoTask}
    IN {s \in [1..Cardinality(keys) -> keys] : \A i, j \in DOMAIN s : s[i] = s[j] => i = j}

\* main(), lines 117-124: an exception ends the sleep loop and bot_monitor.stop()
\* cancels the monitor task and awaits it
MonitorStop ==
    /\ shutdown.pc = "running"
    /\ worker_pc \in {"check", "sleep"}
    /\ worker_pc' = "stopped"
    /\ shutdown' = [shutdown EXCEPT !.pc = "stop_all"]
    /\ add_calls' = <<>>
    /\ UNCHANGED <<lock, running_bots, bot_instances, task_phase, next_task,
                   last_bot_tokens, bot_timestamps, routers_attached>>
    /\ UNCHANGED <<dbvars, api, wh, rlvars, aivars, tkvars, mgvars, fmvars, ccvars>>

\* stop_all, lines 193-194: async with self._lock, then the list of the keys
StopAllEnter ==
    /\ shutdown.pc = "stop_all"
    /\ lock = NoHolder
    /\ lock' = "stop_all"
    /\ \E s \in KeyOrders : shutdown' = [pc |-> "loop", tokens |-> s]
    /\ add_calls' = <<>>
    /\ UNCHANGED <<worker_pc, running_bots, bot_instances, task_phase, next_task,
                   last_bot_tokens, bot_timestamps, routers_attached>>
    /\ UNCHANGED <<dbvars, api, wh, rlvars, aivars, tkvars, mgvars, fmvars, ccvars>>

\* stop_all, lines 195-197: await self.remove_bot(token) for the next token, or the end
\* of the async with block.  remove_bot begins with async with self._lock (line 70):
\* asyncio.Lock.acquire takes a free lock and otherwise waits until it is released,
\* whoever holds it
StopAllStep ==
    /\ shutdown.pc = "loop"
    /\ IF shutdown.tokens = <<>>
       THEN /\ lock' = NoHolder
            /\ shutdown' = [shutdown EXCEPT !.pc = "returned"]
            /\ add_calls' = <<>>
            /\ UNCHANGED <<running_bots, bot_instances, task_phase, next_task, bot_timestamps>>
       ELSE IF lock = NoHolder
       THEN /\ Install(RemoveBot(WorkerState, Head(shutdown.tokens)))
            /\ shutdown' = [shutdown EXCEPT !.tokens = Tail(@)]
            /\ UNCHANGED lock
       ELSE /\ shutdown' = [shutdown EXCEPT !.pc = "remove_bot_wait"]
            /\ add_calls' = <<>>
            /\ UNCHANGED <<lock, running_bots, bot_instances, task_phase, next_task, bot_timestamps>>
    /\ UNCHANGED <<worker_pc, last_bot_tokens, routers_attached>>
    /\ UNCHANGED <<dbvars, api, wh, rlvars, aivars, tkvars, mgvars, fmvars, ccvars>>

\* main() sleeps and nobody holds the lock
InitShutdownIdle ==
    /\ lock = NoHolder
    /\ shutdown = ShutdownIdle

\* ---- initial states ----
\* rows that take no part: both bots paused, without token, in polling mode
InitDBQuiet ==
    /\ status = [b \in Bots |-> "paused"]
    /\ telegram_token = [b \in Bots |-> FALSE]
    /\ delivery_mode = [b \in Bots |-> "polling"]
    /\ webhook_secret = [b \in Bots |-> NoSecret]
    /\ webhook_url = [b \in Bots |-> NoUrl]
    /\ updated_at = [b \in Bots |-> 0]

\* no request made, worker not started
InitProcesses ==
    /\ api = ApiIdle
    /\ wh = WhIdle
    /\ InitWorker
    /\ InitManagerIdle
    /\ InitFormsIdle
    /\ InitDeliveryIdle
    /\ InitCommandsIdle
    /\ InitGenerateIdle
    /\ InitRaceIdle
    /\ InitAggregateIdle

\* one configuration of the AI limits
InitAiQuiet ==
    /\ user_plan = [u \in Users |-> "Free"]
    /\ feature_active = [f \in Features |-> TRUE]
    /\ usage_limit = [max_uses |-> 1, period |-> "weekly"]
    /\ InitAiIdle

Init ==
    /\ InitDB
    /\ InitProcesses
    /\ rl_purpose = "login"
    /\ InitRateIdle
    /\ InitAiQuiet
    /\ InitTaskIdle
    /\ InitShutdownIdle

\* the database, the management request, the gateway and the worker
botvars == <<dbvars, api, wh, wvars>>

NextApi ==
    \/ \E b \in Bots, u \in {NoUrl} \cup CustomUrls : SetWebhookCall(b, u)
    \/ \E o \in TelegramOutcomes : SetWebhookReply(o)
    \/ \E b \in Bots : DeleteWebhookCall(b)
    \/ \E o \in TelegramOutcomes : DeleteWebhookReply(o)

\* the management endpoints alone
Next == NextApi /\ UNCHANGED <<wh, wvars, rlvars, aivars, tkvars, sdvars, mgvars, fmvars, ccvars>>

Spec == Init /\ [][Next]_vars

\* the management endpoints when callers send no custom URL
NextApiDefaultUrl ==
    \/ \E b \in Bots : SetWebhookCall(b, NoUrl)
    \/ \E o \in TelegramOutcomes : SetWebhookReply(o)
    \/ \E b \in Bots : DeleteWebhookCall(b)
    \/ \E o \in TelegramOutcomes : DeleteWebhookReply(o)

\* the gateway beside the management endpoints
NextGateway ==
    \/ /\ \E b \in Bots \cup {UnknownBot}, m \in {"GET", "POST"} : WebhookRequest(b, m)
       /\ UNCHANGED <<api, wvars, rlvars, aivars, tkvars, sdvars, mgvars, fmvars, ccvars>>
    \/ NextApiDefaultUrl /\ UNCHANGED <<wh, wvars, rlvars, aivars, tkvars, sdvars, mgvars, fmvars, ccvars>>

SpecGateway == Init /\ [][NextGateway]_vars

\* the worker beside the management endpoints
NextWorker ==
    \/ /\ \/ Bootstrap
          \/ CheckBots
          \/ MonitorWake
          \/ \E b \in Bots : RunBotPolling(b)
          \/ \E b \in Bots : RunBotExit(b)
       /\ UNCHANGED <<dbvars, api, wh, rlvars, aivars, tkvars, sdvars, mgvars, fmvars, ccvars>>
    \/ /\ \/ NextApiDefaultUrl
          \/ \E b \in Bots, st \in Statuses : PartialUpdate(b, st)
          \/ \E b \in Bots : RestartBotRequest(b)
       /\ UNCHANGED <<wh, wvars, rlvars, aivars, tkvars, sdvars, mgvars, fmvars, ccvars>>

SpecWorker == Init /\ [][NextWorker]_vars

\* the rate-limited endpoint of one purpose, its requests taken one at a time
InitRateLimit ==
    /\ InitDBQuiet
    /\ InitProcesses
    /\ rl_purpose \in Purposes
    /\ InitRateIdle
    /\ InitAiQuiet
    /\ InitTaskIdle
    /\ InitShutdownIdle

NextRateLimit ==
    \/ (\E k \in Clients(rl_purpose) : RateLimitCheck(k)) /\ UNCHANGED <<botvars, aivars, tkvars, sdvars, mgvars, fmvars, ccvars>>
    \/ RateLimitCount /\ UNCHANGED <<botvars, aivars, tkvars, sdvars, mgvars, fmvars, ccvars>>
    \/ RegisterInvalid /\ UNCHANGED <<botvars, aivars, tkvars, sdvars, mgvars, fmvars, ccvars>>
    \/ RateTick /\ UNCHANGED <<botvars, aivars, tkvars, sdvars, mgvars, fmvars, ccvars>>

SpecRateLimit == InitRateLimit /\ [][NextRateLimit]_vars

\* the AI features, their calls taken one at a time
InitAI ==
    /\ InitDBQuiet
    /\ InitProcesses
    /\ rl_purpose = "login"
    /\ InitRateIdle
    /\ user_plan \in {p \in [Users -> Plans] : p["u1"] = "Free" /\ p["u2"] # "Free"}
    /\ feature_active \in {a \in [Features -> BOOLEAN] : a["improve_instruction"]}
    /\ usage_limit \in [max_uses : 1..MaxUses, period : Periods]
    /\ InitAiIdle
    /\ InitTaskIdle
    /\ InitShutdownIdle

NextAI ==
    \/ (\E u \in Users, f \in Features, via \in Callers :
         \E has_input \in IF via = "service" THEN {TRUE} ELSE BOOLEAN :
         \E has_model \in IF has_input /\ via # "bots_ai_views" /\ CanUseFeature(u, f)
                          THEN BOOLEAN ELSE {TRUE} :
            AiRequest(u, f, via, has_input, has_model)) /\ UNCHANGED <<botvars, rlvars, tkvars, sdvars, mgvars, fmvars, ccvars>>
    \/ (\E ok \in BOOLEAN : AiProviderReturn(ok)) /\ UNCHANGED <<botvars, rlvars, tkvars, sdvars, mgvars, fmvars, ccvars>>
    \/ (\E i \in 1..MaxUses : AiElapse(i)) /\ UNCHANGED <<botvars, rlvars, tkvars, sdvars, mgvars, fmvars, ccvars>>

SpecAI == InitAI /\ [][NextAI]_vars

\* one update given to process_telegram_update
InitTask ==
    /\ InitDBQuiet
    /\ InitProcesses
    /\ rl_purpose = "login"
    /\ InitRateIdle
    /\ InitAiQuiet
    /\ InitShutdownIdle
    /\ bot_row \in BOOLEAN
    /\ task \in {[TaskIdle EXCEPT !.pc = "queued", !.has_message = m] : m \in BOOLEAN}
    /\ task_db = NoRows

NextTask ==
    \/ (\E fail_at \in Statements \cup {NoFailure}, insert_ok \in BOOLEAN :
            TaskRun(fail_at, insert_ok)) /\ UNCHANGED <<botvars, rlvars, aivars, sdvars, mgvars, fmvars, ccvars>>
    \/ TaskCountdownOver /\ UNCHANGED <<botvars, rlvars, aivars, sdvars, mgvars, fmvars, ccvars>>
    \/ BotRowDeleted /\ UNCHANGED <<botvars, rlvars, aivars, sdvars, mgvars, fmvars, ccvars>>

SpecTask == InitTask /\ [][NextTask]_vars

\* the worker from its start to the end of stop_all: bots with a token, active or paused
InitShutdown ==
    /\ status \in [Bots -> {"active", "paused"}]
    /\ telegram_token = [b \in Bots |-> TRUE]
    /\ delivery_mode = [b \in Bots |-> "polling"]
    /\ webhook_secret = [b \in Bots |-> NoSecret]
    /\ webhook_url = [b \in Bots |-> NoUrl]
    /\ updated_at = [b \in Bots |-> 0]
    /\ InitProcesses
    /\ rl_purpose = "login"
    /\ InitRateIdle
    /\ InitAiQuiet
    /\ InitTaskIdle
    /\ InitShutdownIdle

NextShutdown ==
    \/ Bootstrap /\ UNCHANGED <<dbvars, api, wh, rlvars, aivars, tkvars, sdvars, mgvars, fmvars, ccvars>>
    \/ CheckBots /\ UNCHANGED <<dbvars, api, wh, rlvars, aivars, tkvars, sdvars, mgvars, fmvars, ccvars>>
    \/ MonitorWake /\ UNCHANGED <<dbvars, api, wh, rlvars, aivars, tkvars, sdvars, mgvars, fmvars, ccvars>>
    \/ (\E b \in Bots : RunBotPolling(b)) /\ UNCHANGED <<dbvars, api, wh, rlvars, aivars, tkvars, sdvars, mgvars, fmvars, ccvars>>
    \/ (\E b \in Bots : RunBotExit(b)) /\ UNCHANGED <<dbvars, api, wh, rlvars, aivars, tkvars, sdvars, mgvars, fmvars, ccvars>>
    \/ (\E b \in Bots, st \in Statuses : PartialUpdate(b, st))
           /\ UNCHANGED <<wh, wvars, rlvars, aivars, tkvars, sdvars, mgvars, fmvars, ccvars>>
    \/ MonitorStop
    \/ StopAllEnter
    \/ StopAllStep

\* the event loop runs a coroutine that can go on
SpecShutdown ==
    InitShutdown /\ [][NextShutdown]_vars /\ WF_vars(StopAllEnter) /\ WF_vars(StopAllStep)

\* the manager under callers that await one call after the other, as main() and the
\* monitor do, beside the tasks it started
InitManager ==
    /\ InitDBQuiet
    /\ InitProcesses
    /\ rl_purpose = "login"
    /\ InitRateIdle
    /\ InitAiQuiet
    /\ InitTaskIdle
    /\ InitShutdownIdle

mgframe == <<dbvars, api, wh, worker_pc, last_bot_tokens, bot_timestamps, add_calls,
             rlvars, aivars, tkvars, shutdown, fmvars, ccvars>>

NextManager ==
    \/ (\E b \in Bots : AddBotCall(b)) /\ UNCHANGED mgframe
    \/ (\E b \in Bots : RemoveBotCall(b)) /\ UNCHANGED mgframe
    \/ RemoveBotFinish /\ UNCHANGED mgframe
    \/ (\E b \in Bots : RunBotInit(b)) /\ UNCHANGED mgframe
    \/ (\E b \in Bots : RunBotGetMeReturns(b)) /\ UNCHANGED mgframe
    \/ (\E b \in Bots, exc \in {"conflict", "error"} : RunBotRaises(b, exc)) /\ UNCHANGED mgframe
    \/ (\E b \in Bots : RunBotCancelled(b)) /\ UNCHANGED mgframe

SpecManager == InitManager /\ [][NextManager]_vars

\* add_bot and remove_bot called in any order by any number of callers (restart_bot and
\* update_bot are such sequences of calls), and stop_all
NextManagerCalls ==
    \/ NextManager
    \/ StopAllCall /\ UNCHANGED mgframe

SpecManagerCalls == InitManager /\ [][NextManagerCalls]_vars

\* one user of one bot whose UI configuration holds one form
InitForms ==
    /\ InitDBQuiet
    /\ api = ApiIdle
    /\ wh = WhIdle
    /\ InitWorker
    /\ InitManagerIdle
    /\ rl_purpose = "login"
    /\ InitRateIdle
    /\ InitAiQuiet
    /\ InitTaskIdle
    /\ InitShutdownIdle
    /\ InitDeliveryIdle
    /\ InitCommandsIdle
    /\ InitGenerateIdle
    /\ InitRaceIdle
    /\ InitAggregateIdle
    /\ ui_form \in FormConfigs
    /\ fsm_data = NoForm
    /\ fsm_state = NoState
    /\ fm = FmIdle

fmframe == <<botvars, rlvars, aivars, tkvars, sdvars, mgvars, ccvars>>

NextForms ==
    \/ FormButton /\ UNCHANGED fmframe
    \/ (\E t \in Texts : TextMessage(t)) /\ UNCHANGED fmframe
    \/ MediaMessage /\ UNCHANGED fmframe
    \/ StartCommand /\ UNCHANGED fmframe

SpecForms == InitForms /\ [][NextForms]_vars

\* one user sends MaxUpdates messages to one bot in webhook mode
InitDelivery ==
    /\ InitDBQuiet
    /\ InitProcesses
    /\ rl_purpose = "login"
    /\ InitRateIdle
    /\ InitAiQuiet
    /\ InitTaskIdle
    /\ InitShutdownIdle

dlframe == <<botvars, rlvars, aivars, tkvars, sdvars, mgvars, fmvars, cmvars, gnvars, rrvars, tuvars>>

NextDelivery ==
    \/ (\E i \in UpdateIds, kind \in HandlerKinds : Arrive(i, kind)) /\ UNCHANGED dlframe
    \/ (\E i \in UpdateIds : GetOrCreateTelegramUser(i)) /\ UNCHANGED dlframe
    \/ (\E i \in UpdateIds : HandleWithoutCount(i)) /\ UNCHANGED dlframe
    \/ (\E i \in UpdateIds : ProcessMessage(i)) /\ UNCHANGED dlframe
    \/ (\E i \in UpdateIds : SaveUserMessage(i)) /\ UNCHANGED dlframe
    \/ (\E i \in UpdateIds : SendResponse(i)) /\ UNCHANGED dlframe

SpecDelivery == InitDelivery /\ [][NextDelivery]_vars

\* the commands of the bots are edited while the worker serves lookups
InitCommands == InitDelivery

cmframe == <<botvars, rlvars, aivars, tkvars, sdvars, mgvars, fmvars, dlvars, gnvars, rrvars, tuvars>>

NextCommands ==
    \/ (\E b \in Bots : EditCommands(b)) /\ UNCHANGED cmframe
    \/ (\E b \in Bots : MonitorDetectsUpdate(b)) /\ UNCHANGED cmframe
    \/ (\E b \in Bots : GetCommandsForBot(b)) /\ UNCHANGED cmframe

SpecCommands == InitCommands /\ [][NextCommands]_vars

\* a Free user with up to max_uses successful uses in the period calls generate
\* MaxCalls times at once
InitGenerate ==
    /\ InitDBQuiet
    /\ InitProcesses
    /\ rl_purpose = "login"
    /\ InitRateIdle
    /\ user_plan = [u \in Users |-> "Free"]
    /\ feature_active = [f \in Features |-> TRUE]
    /\ usage_limit \in [max_uses : 1..MaxUses, period : Periods]
    /\ \E k \in 0..MaxUses :
          /\ k <= usage_limit.max_uses
          /\ usage_log = [i \in 1..k |->
                [user |-> GenUser, feature |-> GenFeature, success |-> TRUE, age |-> 0]]
    /\ ai = AiIdle
    /\ InitTaskIdle
    /\ InitShutdownIdle

gnframe == <<botvars, rlvars, tkvars, sdvars, mgvars, fmvars, dlvars, cmvars, rrvars, tuvars>>

NextGenerate ==
    \/ (\E c \in Calls : GenCheckLimit(c)) /\ UNCHANGED gnframe
    \/ (\E c \in Calls, ok \in BOOLEAN : GenProviderReturn(c, ok)) /\ UNCHANGED gnframe

SpecGenerate == InitGenerate /\ [][NextGenerate]_vars

\* one client sends limit + MaxOverLimit requests to a decorated view within one window
InitRace ==
    /\ InitDBQuiet
    /\ api = ApiIdle
    /\ wh = WhIdle
    /\ InitWorker
    /\ InitManagerIdle
    /\ InitFormsIdle
    /\ InitDeliveryIdle
    /\ InitCommandsIdle
    /\ InitGenerateIdle
    /\ InitAggregateIdle
    /\ rl_purpose \in {"login", "register"}
    /\ rreq = [i \in 1..(Limit[rl_purpose] + MaxOverLimit) |-> NewRequest]
    /\ InitRateIdle
    /\ InitAiQuiet
    /\ InitTaskIdle
    /\ InitShutdownIdle

rrframe == <<botvars, aivars, tkvars, sdvars, mgvars, fmvars, dlvars, cmvars, gnvars, tuvars>>

NextRace ==
    \/ (\E i \in DOMAIN rreq : RaceCheck(i)) /\ UNCHANGED rrframe
    \/ (\E i \in DOMAIN rreq : RaceCount(i)) /\ UNCHANGED rrframe

SpecRace == InitRace /\ [][NextRace]_vars

\* MaxAggregations executions for one bot and date are in the queue of the workers
InitAggregate ==
    /\ InitDBQuiet
    /\ api = ApiIdle
    /\ wh = WhIdle
    /\ InitWorker
    /\ InitManagerIdle
    /\ InitFormsIdle
    /\ InitDeliveryIdle
    /\ InitCommandsIdle
    /\ InitGenerateIdle
    /\ InitRaceIdle
    /\ rl_purpose = "login"
    /\ InitRateIdle
    /\ InitAiQuiet
    /\ InitTaskIdle
    /\ InitShutdownIdle
    /\ token_usage = NoTokenUsage
    /\ agg \in [Aggregations ->
                  [pc : {"queued"}, args : TokenArgs, row_input : {0}, row_output : {0}]]

tuframe == <<botvars, rlvars, aivars, tkvars, sdvars, mgvars, fmvars, dlvars, cmvars, gnvars,
             rrvars>>

NextAggregate ==
    \/ (\E e \in Aggregations : AggGetOrCreate(e)) /\ UNCHANGED tuframe
    \/ (\E e \in Aggregations : AggSave(e)) /\ UNCHANGED tuframe

SpecAggregate == InitAggregate /\ [][NextAggregate]_vars

\* ======================= claims =======================

\* a finished set-webhook request
SetWebhookDone == api.op = "set_webhook" /\ api.pc = "done"
\* a finished delete-webhook request
DeleteWebhookDone == api.op = "delete_webhook" /\ api.pc = "done"
\* the gateway request got as far as the signature check (step 4)
SignatureChecked == wh.events # <<>> /\ wh.events[1] = "received"

\* C1: an add_bot call for a token whose task is live returns False, creates no
\* task, leaves the registered task and its state as they were, and does not raise
\* the number of running bots.
C1_AddBotIdempotent ==
    \A i \in 1..Len(add_calls) :
        add_calls[i].was_live =>
            /\ ~add_calls[i].result
            /\ add_calls[i].created = 0
            /\ add_calls[i].task_after = add_calls[i].task_before
            /\ add_calls[i].phase_after = add_calls[i].phase_before
            /\ add_calls[i].running_after <= add_calls[i].running_before

\* the first monitor check calls add_bot for the tokens bootstrap has started
C1_Witness ==
    \E i \in 1..Len(add_calls) : add_calls[i].was_live /\ ~add_calls[i].result

\* C2: a webhook-mode bot is not polled: when bootstrap or a monitor check has
\* completed, no bot that the step found in webhook mode has a live polling task.
C2_WebhookBotsNotPolled ==
    [][(worker_pc \in {"boot", "check"} /\ worker_pc' # worker_pc)
          => \A b \in Bots :
                delivery_mode[b] = "webhook"
                   => (running_bots'[b] = NoTask \/ task_phase'[running_bots'[b]] = "done")]_vars

\* C3: during and after a set-webhook call, the persisted delivery_mode is webhook
\* by that call's write only if Telegram has accepted the setWebhook request.
C3_WebhookOnlyIfAccepted ==
    (api.op = "set_webhook" /\ api.wrote_webhook /\ delivery_mode[api.bot] = "webhook")
        => api.telegram = "ok"

\* C4: with a webhook secret configured, an update is fed to the dispatcher only if
\* the secret-token header is present and equal to the secret.
C4_DispatchOnlyWithSecret ==
    (Dispatched(wh) /\ wh.secret # NoSecret) => wh.header = wh.secret

\* C5: a header value different from the configured secret is answered 401/403 and
\* not dispatched; a matching value is let through; with no secret configured every
\* request is let through.
C5_SignatureOutcome ==
    SignatureChecked =>
        /\ (wh.secret # NoSecret /\ wh.header # wh.secret)
              => (wh.code \in {401, 403} /\ ~Dispatched(wh))
        /\ (wh.secret # NoSecret /\ wh.header = wh.secret) => wh.code \notin {401, 403}
        /\ wh.secret = NoSecret => wh.code \notin {401, 403}

\* C6: a POST for an active polling-mode bot is answered 400; once the bot is in
\* webhook mode a request that is processed is answered 200 with body OK.
C6_PollingModeRejected ==
    /\ (wh.method = "POST" /\ wh.mode = "polling") => wh.code = 400
    /\ (wh.method = "POST" /\ wh.mode = "webhook" /\ Dispatched(wh))
          => (wh.code = 200 /\ wh.text = "OK")

\* C7 as stated: once the Update object is built, the response is 2xx whatever is raised.
C7_Always2xxAfterUpdateBuilt ==
    wh.update_built => wh.code \in 200..299

\* C7 as amended: whatever dp.feed_update raises is caught and logged and the
\* response is 200 OK; a failure of get_shared_dispatcher, raised after the Update
\* object is built and before feed_update is called, is answered with 500.
C7_FeedErrorsAnswered200 ==
    /\ Dispatched(wh) =>
          /\ wh.code = 200 /\ wh.text = "OK"
          /\ wh.feed # "ok" => wh.events[Len(wh.events)] = "error"
    /\ (wh.update_built /\ ~Dispatched(wh)) => (wh.dispatcher = "raise" /\ wh.code = 500)

C7_Witness ==
    wh.update_built /\ wh.feed = "error" /\ wh.code = 200

\* C8: if Telegram rejects setWebhook or the call fails, then when set-webhook
\* returns the persisted delivery_mode is polling and the response reports failure.
C8_RejectionRollsBack ==
    (SetWebhookDone /\ api.telegram \in {"rejected", "raised"})
        => /\ delivery_mode[api.bot] = "polling"
           /\ ~api.success
           /\ api.code \in {400, 500}

C8_Witness ==
    SetWebhookDone /\ api.telegram = "rejected" /\ api.wrote_webhook
        /\ delivery_mode[api.bot] = "polling"

\* C9: if Telegram accepts setWebhook, the response is 200 with success=true and the
\* persisted delivery_mode is webhook when the request completes.
C9_AcceptedCommits ==
    (SetWebhookDone /\ api.telegram = "ok")
        => /\ api.code = 200
           /\ api.success
           /\ delivery_mode[api.bot] = "webhook"

C9_Witness ==
    SetWebhookDone /\ api.telegram = "ok" /\ api.wrote_webhook
        /\ delivery_mode[api.bot] = "webhook"

C11_RestartWithinOneCheck ==
    [][(worker_pc = "check" /\ worker_pc' = "sleep")
          => \A b \in Bots :
                (/\ api.op = "restart_bot" /\ api.bot = b /\ api.success
                 /\ bot_timestamps[b] # updated_at[b]
                 /\ IsRunning(WorkerState, b))
                   => /\ task_phase'[running_bots[b]] = "done"
                      /\ running_bots'[b] \notin {NoTask, running_bots[b]}
                      /\ task_phase'[running_bots'[b]] = "created"]_vars

\* C12: for each purpose and key, with requests taken one at a time, the first
\* `limit` requests of a window are admitted and the (limit+1)-th request of that
\* window is rejected with a retry-after hint.
C12_LimitPerWindow ==
    rl.pc = "done" =>
        /\ rl.nth <= Limit[rl_purpose] => rl.outcome # "throttled"
        /\ rl.nth = Limit[rl_purpose] + 1 => (rl.outcome = "throttled" /\ rl.retry_after > 0)

\* C13: a counter expires one period after the first request counted in its
\* window, however many further requests for the key arrive before then.
C13_FixedWindow ==
    \A k \in RateKeys : cache[k].ttl = counter_due[k]

\* the user's plan has a finite limit for the feature and max_uses successful rows
\* of that user and feature lie within the period
QuotaExhausted(u, f) ==
    /\ user_plan[u] = "Free"
    /\ feature_active[f]
    /\ GetUsageCount(usage_log, u, f, usage_limit.period) >= usage_limit.max_uses

\* the step is the arrival of a call of caller via for user u and feature f
AiCallArrives(u, f, via) ==
    /\ ai.pc # "provider"
    /\ ai' # ai
    /\ ai'.user = u /\ ai'.feature = f /\ ai'.via = via

\* C14: for a user on a plan with a finite limit, once max_uses successful rows of
\* the user and feature lie within the period, check_limit returns False and a
\* further generate call is rejected with the limit-exceeded error, without a call
\* to the provider and without a new log row.
C14_ExhaustedQuotaRejects ==
    [][\A u \in Users, f \in Features :
          QuotaExhausted(u, f) =>
              /\ ~CanUseFeature(u, f)
              /\ AiCallArrives(u, f, "service") =>
                    /\ ai'.pc = "done" /\ ai'.error = "limit"
                    /\ ~ai'.provider_called
                    /\ usage_log' = usage_log]_vars

\* a generate call was rejected for a user whose quota is used up
C14_Witness ==
    /\ ai.pc = "done" /\ ai.via = "service" /\ ai.error = "limit"
    /\ ai.user \in Users /\ ai.feature \in Features
    /\ QuotaExhausted(ai.user, ai.feature)
    /\ usage_limit.max_uses = MaxUses

\* C15: a generate call that passed the limit check and fails at the provider
\* writes one row with success = false and leaves every usage count that limit
\* checks compare with max_uses as it was.
C15_FailureNotCounted ==
    [][(ai.pc = "provider" /\ ai.via # "bots_ai_views" /\ ai'.pc = "done" /\ ai'.error = "provider")
          => /\ Len(usage_log') = Len(usage_log) + 1
             /\ SubSeq(usage_log', 1, Len(usage_log)) = usage_log
             /\ usage_log'[Len(usage_log')].user = ai.user
             /\ usage_log'[Len(usage_log')].feature = ai.feature
             /\ ~usage_log'[Len(usage_log')].success
             /\ \A u \in Users, f \in Features, p \in Periods :
                   GetUsageCount(usage_log', u, f, p) = GetUsageCount(usage_log, u, f, p)]_vars

\* a failed call has been logged and the user may still use the feature
C15_Witness ==
    /\ ai.pc = "done" /\ ai.logged = "failure"
    /\ usage_log # <<>> /\ ~usage_log[Len(usage_log)].success
    /\ usage_log[Len(usage_log)].user = ai.user
    /\ user_plan[ai.user] = "Free" /\ CanUseFeature(ai.user, ai.feature)

\* C16: the improve-instruction and generate-content endpoints are gated by their
\* feature code: a request of a user whose quota for the feature is used up is
\* rejected and does not reach the provider.
C16_EndpointsGated ==
    [][\A u \in Users, f \in Features, via \in {"ai_settings_views", "bots_ai_views"} :
          (QuotaExhausted(u, f) /\ AiCallArrives(u, f, via))
              => /\ ai'.pc = "done"
                 /\ ~ai'.provider_called
                 /\ ai'.code \in 400..499]_vars
\* C17: a task that keeps failing is executed at most 4 times in total, and the retry
\* that follows failed attempt k (k = 0, 1, 2) is scheduled 5 * 2^k seconds later:
\* the countdowns are 5, 10, 20 in this order, and the task has failed for good only
\* after the fourth execution
C17_FourRunsBackoff ==
    /\ task.executions <= 4
    /\ \E n \in 0..3 : task.countdowns = SubSeq(<<5, 10, 20>>, 1, n)
    /\ task.pc = "failed" => task.executions = 4 /\ task.countdowns = <<5, 10, 20>>
    /\ task.pc \in {"queued", "retry_wait"} => Len(task.countdowns) = task.executions

\* the task has failed four times, after the three retries
C17_Witness ==
    /\ task.pc = "failed"
    /\ task.executions = 4
    /\ task.countdowns = <<5, 10, 20>>

C19_UnknownOrInactive404 ==
    wh.method = "POST" /\ (wh.bot_id \notin Bots \/ status[wh.bot_id] # "active") =>
        /\ wh.code = 404
        /\ ~Dispatched(wh)
        /\ \A i \in DOMAIN wh.events : wh.events[i] # "processed"


\* C20: once the monitor has been stopped, stop_all returns after finitely many steps
\* whenever at least one bot is registered, and when it returns every polling task has
\* finished and the map of running bots is empty
C20_StopAllReturns ==
    (shutdown.pc = "stop_all" /\ \E b \in Bots : running_bots[b] # NoTask)
        ~> /\ shutdown.pc = "returned"
           /\ \A b \in Bots : running_bots[b] = NoTask
           /\ \A t \in Tasks : task_phase[t] \in {"none", "done"}


\* the step is taken by a call of the manager for token b while that call holds the
\* lock: remove_bot after its acquire, or add_bot, whose acquire and release lie within
\* its single step
StepHoldsLock(b) ==
    /\ call' # call
    /\ call'.token = b
    /\ call'.op = "add_bot" \/ lock = "remove_bot"

\* C21: every insertion into or deletion from the token->task map (running_bots) and
\* the token->client map (bot_instances) is performed while the manager's lock is held
C21_MutationsUnderLock ==
    [][\A b \in Bots :
          (running_bots'[b] # running_bots[b] \/ (b \in bot_instances') # (b \in bot_instances))
              => StepHoldsLock(b)]_vars


\* C22: remove_bot deletes a token from running_bots only after the task of that token
\* has terminated and the session of its Bot has been closed, and when remove_bot
\* returns True the token is a key of neither running_bots nor bot_instances
C22_RemoveAfterCleanup ==
    [][\A b \in Bots :
          /\ (running_bots[b] # NoTask /\ running_bots'[b] = NoTask)
                 => /\ task_phase[running_bots[b]] = "done"
                    /\ bot_session'[running_bots[b]] # "open"
          /\ (call' # call /\ call'.op = "remove_bot" /\ call'.token = b
                  /\ call'.pc = "returned" /\ call'.result)
                 => /\ running_bots'[b] = NoTask
                    /\ b \notin bot_instances']_vars

\* remove_bot has returned True for a bot whose task it cancelled while the Bot was
\* stored and its session open
C22_Witness ==
    /\ call.op = "remove_bot"
    /\ call.pc = "returned"
    /\ call.result
    /\ task_result[call.task] = "cancelled"
    /\ bot_session[call.task] = "closed"


\* C23: after each monitor check, every token the active-bot query returned is a key
\* of running_bots, and every token that was known at the previous check and is no
\* longer returned has been removed from the manager
C23_CheckReconciles ==
    [][(worker_pc = "check" /\ worker_pc' = "sleep") =>
          /\ \A b \in ActiveBots : running_bots'[b] # NoTask
          /\ \A b \in last_bot_tokens \ ActiveBots :
                 running_bots'[b] = NoTask /\ b \notin bot_instances']_vars

\* a check is over with one bot registered and the other, started second and since
\* paused, removed
C23_Witness ==
    /\ worker_pc = "sleep"
    /\ \E a, r \in Bots :
          /\ a \in ActiveBots /\ running_bots[a] = 1
          /\ r \notin ActiveBots /\ running_bots[r] = NoTask
          /\ task_phase[2] = "done"


\* C24: if a bot is active in the database and its task has ended while its token is
\* still a key of running_bots, the next monitor check starts a new task for it and the
\* bot is reported as running again
C24_EndedTaskRevived ==
    [][(worker_pc = "check" /\ worker_pc' = "sleep") =>
          \A b \in ActiveBots :
              (running_bots[b] # NoTask /\ task_phase[running_bots[b]] = "done")
                  => /\ running_bots'[b] \notin {NoTask, running_bots[b]}
                     /\ task_phase'[running_bots'[b]] = "created"
                     /\ IsRunning([running_bots |-> running_bots', task_phase |-> task_phase'], b)]_vars

\* no row was ever written, the first task of the only active bot has ended and a
\* check has started the second task for it
C24_Witness ==
    /\ worker_pc = "sleep"
    /\ \A b \in Bots : updated_at[b] = 0
    /\ \E b \in ActiveBots :
          /\ running_bots[b] = 2 /\ task_phase[2] = "created" /\ task_phase[1] = "done"
          /\ \A r \in Bots \ {b} : running_bots[r] = NoTask


\* C25: after the task of a bot has ended with a Telegram conflict error, the manager
\* does not retain the bot: its token is no key of running_bots and the bot is not
\* reported as running
C25_ConflictNotRetained ==
    \A b \in Bots :
        /\ running_bots[b] # NoTask => task_result[running_bots[b]] # "conflict"
        /\ IsRunning(WorkerState, b) => task_result[running_bots[b]] # "conflict"

\* C26: for every token for which add_bot returned True, when get_me succeeds and no
\* conflict occurs, the task builds a dispatcher and reaches start_polling: no task
\* whose get_me returned ends with the exception that create_dispatcher raised, be it
\* the task of the first bot, of a further bot or of a bot started again
C26_StartedBotsPoll ==
    \A t \in Tasks : task_result[t] \notin {"TypeError", "RuntimeError"}

\* C27: starting a form whose configuration is valid and has at least one step stores
\* form_name, current_step = 0, an empty form_data and form_config in the user's FSM
\* data and then sends the prompt of the first step.
C27_StartStoresAndPrompts ==
    fm.handler = "start_form" =>
        /\ fsm_data = [form_name |-> FormName, current_step |-> 0, form_data |-> <<>>,
                       form_config |-> ui_form]
        /\ fm.replies = <<Prompt(0)>>

\* C28: at step i of an n-step form a text input that passes the validation of step i
\* is stored under the field of the step; if i < n-1 current_step becomes i+1 and the
\* prompt of step i+1 is sent, if i = n-1 the form is submitted.
C28_ValidInputAdvances ==
    [][\A t \in Texts :
        LET i == fsm_data.current_step
            n == Len(fsm_data.form_config)
        IN (/\ FormModeFilter(fsm_data)
            /\ i < n
            /\ ValidateFormStep(fsm_data.form_config[i + 1], t).ok
            /\ TextMessage(t))
           => IF i < n - 1
              THEN /\ fsm_data'.form_data[fsm_data.form_config[i + 1].field] = t.text
                   /\ fsm_data'.current_step = i + 1
                   /\ fm'.replies = <<Prompt(i + 1)>>
              ELSE /\ fm'.replies =
                         <<Summary((fsm_data.form_config[i + 1].field :> t.text)
                                   @@ fsm_data.form_data)>>
                   /\ ~FormModeFilter(fsm_data')]_vars

\* C29: while the user is mid-wizard, a text input that fails the validation of the
\* current step leaves current_step and form_data unchanged and the user is sent the
\* validation message.
C29_InvalidInputKeepsStep ==
    [][\A t \in Texts :
        LET i == fsm_data.current_step
            n == Len(fsm_data.form_config)
        IN (/\ FormModeFilter(fsm_data)
            /\ i < n
            /\ ~ValidateFormStep(fsm_data.form_config[i + 1], t).ok
            /\ TextMessage(t))
           => /\ fsm_data'.current_step = i
              /\ fsm_data'.form_data = fsm_data.form_data
              /\ fm'.replies =
                    <<ValidationMessage(ValidateFormStep(fsm_data.form_config[i + 1], t).error)>>]_vars

\* the user is at the second step with the first answer stored, and the last text
\* was answered with a validation message
C29_Witness ==
    /\ fm.kind = "text"
    /\ fm.handler = "forms"
    /\ fm.step = 1
    /\ Len(fm.replies) = 1
    /\ fm.replies[1].kind = "validation"
    /\ fsm_data.current_step = 1
    /\ DOMAIN fsm_data.form_data # {}

\* C30: while the FSM data of the user holds a form in progress, no inbound message is
\* processed by the chat logic: no user ChatMessage is saved and no AI call is made.
C30_FormShieldsChat ==
    [][(fsm_data.form_name = FormName /\ fsm_data.form_config = ui_form)
          => ~fm'.chat_processed]_vars

\* a media message of a user in form mode reached handle_message and was left alone,
\* the form still in progress
C30_Witness ==
    /\ fm.kind = "media"
    /\ fm.handler = "chat"
    /\ fm.in_form
    /\ fm.replies = <<>>
    /\ ~fm.chat_processed
    /\ FormModeFilter(fsm_data)

\* C31: every message that reaches handle_message results in at least one reply to the
\* user, whether processing succeeds or fails at any stage.
C31_ChatAlwaysReplies == fm.handler = "chat" => Len(fm.replies) >= 1

\* C32: within one chat session the user messages are persisted in the order in which
\* their updates arrived, also when several webhook deliveries of the same bot and user
\* are in flight at the same time.
C32_PersistedInArrivalOrder ==
    \A a, b \in DOMAIN chat_messages : a < b => chat_messages[a] < chat_messages[b]

\* C33: each inbound message of a Telegram account to a bot increases message_count of
\* the TelegramUser row by exactly one, whichever handler processes the message.
C33_CountedOncePerMessage ==
    /\ \A i \in UpdateIds : updates[i].pc = "done" => updates[i].counted = 1
    /\ (\A i \in UpdateIds : updates[i].pc = "done") => message_count = MaxUpdates

\* C34: after the commands of a bot are changed in the database and the monitor has
\* detected the change to that bot, later command lookups in the worker return the
\* changed commands instead of the cached ones.
C34_LookupAfterDetectionIsFresh ==
    [][\A b \in Bots : GetCommandsForBot(b) => cmd_lookup'.result >= monitor_seen[b]]_vars

\* C35: two concurrent generate calls of one user with exactly one use remaining can
\* both pass the limit check before either logs its use; when both then record a
\* successful use, the successful uses in the period exceed max_uses.
C35_BothPassThenExceed ==
    \A c1, c2 \in Calls :
        (/\ c1 # c2
         /\ gen[c1].pc = "returned" /\ gen[c1].seen = usage_limit.max_uses - 1
         /\ gen[c2].pc = "returned" /\ gen[c2].seen = usage_limit.max_uses - 1)
        => GetUsageCount(usage_log, GenUser, GenFeature, usage_limit.period)
               > usage_limit.max_uses

\* both calls read one remaining use, both returned, and the log holds more successful
\* uses than the limit allows
C35_Witness ==
    /\ gen[1].pc = "returned" /\ gen[1].seen = usage_limit.max_uses - 1
    /\ gen[2].pc = "returned" /\ gen[2].seen = usage_limit.max_uses - 1
    /\ GetUsageCount(usage_log, GenUser, GenFeature, usage_limit.period)
           = usage_limit.max_uses + 1

\* C36: for any rate-limit key at most `limit` requests are admitted within one window,
\* also when the requests of the key are handled concurrently.
C36_AtMostLimitAdmitted ==
    Cardinality({i \in DOMAIN rreq : rreq[i].pc = "admitted"}) <= Limit[rl_purpose]

\* C37: for one Telegram update, across all attempts of the processing task, at most one
\* received MessageEvent and at most one user ChatMessage are created and the sender's
\* message_count is incremented at most once.
C37_AttemptsWriteOnce ==
    /\ task_db.received <= 1
    /\ task_db.user_messages <= 1
    /\ task_db.message_count <= 1

\* C38: a set-webhook call that fails leaves delivery_mode, webhook_url and
\* webhook_secret of the bot exactly as they were before the call; a bot that was in
\* webhook mode is still in webhook mode afterwards.
C38_FailedCallChangesNothing ==
    (SetWebhookDone /\ ~api.success)
        => /\ delivery_mode[api.bot] = api.before.mode
           /\ webhook_url[api.bot] = api.before.url
           /\ webhook_secret[api.bot] = api.before.secret

\* C38, amended: a set-webhook call refused for a missing token changes none of the
\* three fields; a call that fails at Telegram leaves delivery_mode polling whatever it
\* was, keeps a secret that was stored before the call, and keeps what the call saved
\* before it asked Telegram: the supplied URL and a newly generated secret.
C38_FailedCallLeavesPolling ==
    (SetWebhookDone /\ ~api.success)
        => IF api.telegram = "none"
           THEN /\ delivery_mode[api.bot] = api.before.mode
                /\ webhook_url[api.bot] = api.before.url
                /\ webhook_secret[api.bot] = api.before.secret
           ELSE /\ delivery_mode[api.bot] = "polling"
                /\ webhook_url[api.bot] =
                      IF api.custom_url # NoUrl THEN api.custom_url ELSE api.before.url
                /\ webhook_secret[api.bot] =
                      IF api.before.secret = NoSecret THEN GeneratedSecret ELSE api.before.secret

\* Telegram rejected the call for a bot that was in webhook mode with a secret: the bot
\* is in polling mode and the secret is the one it had
C38_Witness ==
    /\ SetWebhookDone
    /\ api.telegram = "rejected"
    /\ api.before.mode = "webhook"
    /\ api.before.secret # NoSecret
    /\ delivery_mode[api.bot] = "polling"
    /\ webhook_secret[api.bot] = api.before.secret

\* a task that was created and has not finished
LiveTask(t) == task_phase[t] \notin {"none", "done"}

\* C39: at every moment there is at most one live polling task per Telegram token,
\* under any interleaving of add_bot, remove_bot, restart_bot, update_bot and stop_all.
C39_OneLiveTaskPerToken ==
    \A t1, t2 \in Tasks :
        (t1 # t2 /\ task_token[t1] # "none" /\ task_token[t1] = task_token[t2])
            => ~(LiveTask(t1) /\ LiveTask(t2))

\* a token has had two tasks: the first is over and removed, the second is live
C39_Witness ==
    \E t1, t2 \in Tasks :
        /\ t1 # t2
        /\ task_token[t1] # "none"
        /\ task_token[t1] = task_token[t2]
        /\ task_result[t1] = "cancelled"
        /\ LiveTask(t2)
        /\ running_bots[task_token[t2]] = t2

\* C40: after any set of aggregate_token_usage executions for one bot and date,
\* concurrent ones included, input_tokens and output_tokens of the TokenUsage row equal
\* the sums of the input and output values of those executions.
C40_RowHoldsTheSums ==
    (\A e \in Aggregations : agg[e].pc = "done")
        => /\ token_usage.input_tokens = SumInput(MaxAggregations)
           /\ token_usage.output_tokens = SumOutput(MaxAggregations)

====
